---------------------------- MODULE Spec2Model ----------------------------
(***************************************************************************)
(* A model of the libasciidoc parser: the PEG grammar of                   *)
(* pkg/parser/asciidoc-grammar.peg read at the granularity of input lines, *)
(* and the AST assembly code of package types (NewDocument,                *)
(* insertPreamble, NewSection, NewList, ...).                              *)
(*                                                                         *)
(* An input document is a sequence of lines.  Every line is one of a       *)
(* fixed set of concrete texts, named by a line class:                     *)
(*    "text"     a paragraph                                               *)
(*    "blank"    (the empty line)                                          *)
(*    "fenced"   ```        "listing"  ----      "example"  ====           *)
(*    "comment"  ////       "verse"    ____      "literal"  ....           *)
(*    "listingX" ----foo    "verseX"   ____foo   "commentX" ////foo        *)
(*    "title0"   = t0   ...   "title5"   ====== t5                         *)
(*    "olist"    . item     "ulist"    * item    "llist"    term:: desc    *)
(*    "idattr"   [[thetitle]]                                              *)
(* `nl` tells whether the last line ends with a NEWLINE or with EOF.       *)
(* The cursor of the parser is the index of the line it stands before;     *)
(* Len(input) + 1 is the end of input.                                     *)
(***************************************************************************)
EXTENDS Integers, Sequences, FiniteSets, TLC

VARIABLES input, nl, pc, pos, header, blocks, listItems, result

vars == <<input, nl, pc, pos, header, blocks, listItems, result>>

\* ------------------------------------------------------------------
\* Bounds
\* ------------------------------------------------------------------
MaxLen == 3

MaxSecLen == 3

MaxBlocks == 3

MaxItems == 4

MaxAttrLines == 2

MaxBackslashes == 3

MaxBlankRun == 3

MaxParLen == 3

MaxStemLen == 3

MaxPrefixes == 4

\* ------------------------------------------------------------------
\* Line classes
\* ------------------------------------------------------------------
DelimiterLines == {"fenced", "listing", "example", "comment", "verse", "literal"}

DelimiterTextLines == {"listingX", "verseX", "commentX"}

TitleLines == {"title0", "title1", "title2", "title3", "title4", "title5"}

ListLines == {"olist", "ulist", "llist"}

\* the title line of each section level
TitleLineOfLevel ==
    [l \in 0..5 |-> CASE l = 0 -> "title0" [] l = 1 -> "title1" [] l = 2 -> "title2"
                       [] l = 3 -> "title3" [] l = 4 -> "title4" [] l = 5 -> "title5"]

LineClasses ==
    {"text", "blank"} \cup DelimiterLines \cup DelimiterTextLines
        \cup TitleLines \cup ListLines \cup {"idattr"}

NULL == "nil"

EmptyMap == [k \in {} |-> NULL]

\* sequences over S of length at most n
SeqsUpTo(S, n) == UNION {[1..k -> S] : k \in 0..n}

\* ------------------------------------------------------------------
\* Parse results: s is "ok" (matched, cursor moved to p, value v),
\* "fail" (no match, the caller backtracks), "panic" (the action code
\* panicked: the generated parser recovers and returns an error) or
\* "loop" (a repetition whose body matched without consuming input:
\* the generated parser iterates forever).
\* ------------------------------------------------------------------
Ok(p, v) == [s |-> "ok", p |-> p, v |-> v]

Fail == [s |-> "fail", p |-> 0, v |-> NULL]

Panic == [s |-> "panic", p |-> 0, v |-> NULL]

Loop == [s |-> "loop", p |-> 0, v |-> NULL]

Aborted(r) == r.s \in {"panic", "loop"}

\* ------------------------------------------------------------------
\* Base rules
\* ------------------------------------------------------------------
EOFPos == Len(input) + 1

EOF(p) == p = EOFPos

\* the class of the line at the cursor
LineAt(p) == IF p \in 1..Len(input) THEN input[p] ELSE "EOF"

\* the line at p ends with a NEWLINE (and not with the end of input)
NEWLINE(p) == p \in 1..Len(input) /\ (p < Len(input) \/ nl)

\* BlockDelimiter matches at the start of the line
BlockDelimiter(p) ==
    LineAt(p) \in DelimiterLines \cup DelimiterTextLines
        \cup {"title3", "title4", "title5"}

\* the delimiter that starts the line, if any
DelimiterOf(c) ==
    CASE c \in {"fenced"} -> "fenced"
      [] c \in {"listing", "listingX"} -> "listing"
      [] c \in {"example", "title3", "title4", "title5"} -> "example"
      [] c \in {"comment", "commentX"} -> "comment"
      [] c \in {"verse", "verseX"} -> "verse"
      [] c \in {"literal"} -> "literal"
      [] OTHER -> "none"


\* ------------------------------------------------------------------
\* Characters.  A text is a sequence of characters; a rule of the
\* grammar that reads characters is an operator from a text t and an
\* index i to [i, v]: the index after the match and the value of the
\* rule, or the index 0 when the rule does not match.
\* ------------------------------------------------------------------
CFail == [i |-> 0, v |-> NULL]

COk(i, v) == [i |-> i, v |-> v]

\* e1 / e2
OrElse(first, second) == IF first.i # 0 THEN first ELSE second

\* the character at the index; "EOF" after the last one
At(t, i) == IF i \in 1..Len(t) THEN t[i] ELSE "EOF"

RECURSIVE Str(_)
\* string(c.text), stringify: the string of the characters
Str(cs) == IF cs = <<>> THEN "" ELSE Head(cs) \o Str(Tail(cs))

\* WS <- " " / "\t"
WSChars == {" ", "\t"}

\* NEWLINE <- "\r\n" / "\r" / "\n"
NEWLINEChars == {"\n", "\r"}

\* a literal: the index after it
Literal(t, i, lit) ==
    IF i # 0 /\ i + Len(lit) - 1 <= Len(t) /\ SubSeq(t, i, i + Len(lit) - 1) = lit
    THEN i + Len(lit) ELSE 0

RECURSIVE SkipWS(_, _)
\* WS* : the index after the spaces
SkipWS(t, i) == IF i # 0 /\ At(t, i) \in WSChars THEN SkipWS(t, i + 1) ELSE i

RECURSIVE Scan(_, _, _)
\* (!stop .)* : the index of the first character of `stops`, or of the
\* end of the text; `.` matches every character, a NEWLINE too
Scan(t, i, stops) ==
    IF At(t, i) \in stops \cup {"EOF"} THEN i ELSE Scan(t, i + 1, stops)

\* EOL <- NEWLINE / EOF : the index after it
CharEOL(t, i) ==
    IF i = 0 THEN 0
    ELSE IF At(t, i) \in NEWLINEChars THEN i + 1
    ELSE IF At(t, i) = "EOF" THEN i ELSE 0

\* e WS* EOL { return attr, nil }
EndOfLine(t, r) ==
    LET After(e) == IF e = 0 THEN CFail ELSE COk(e, r.v)
    IN  After(CharEOL(t, SkipWS(t, r.i)))

\* e "lit"
Then(t, r, lit) ==
    LET After(e) == IF e = 0 THEN CFail ELSE COk(e, r.v)
    IN  After(Literal(t, r.i, lit))

RECURSIVE IDEnd(_, _)
\* the end of (!NEWLINE !WS !"[" !"]" !"<<" !">>" .)+
IDEnd(t, i) ==
    IF At(t, i) \in NEWLINEChars \cup WSChars \cup {"[", "]", "EOF"}
           \/ Literal(t, i, <<"<", "<">>) # 0 \/ Literal(t, i, <<">", ">">>) # 0
    THEN i ELSE IDEnd(t, i + 1)

\* ID <- (!NEWLINE !WS !"[" !"]" !"<<" !">>" .)+
ID(t, i) ==
    LET Named(e) == IF e = i THEN CFail ELSE COk(e, Str(SubSeq(t, i, e - 1)))
    IN  IF i = 0 THEN CFail ELSE Named(IDEnd(t, i))

\* types.NewElementID
NewElementID(id) == IF id.i = 0 THEN CFail ELSE COk(id.i, [elementID |-> id.v])

\* InlineElementID <- "[[" id:(ID) "]]"
InlineElementID(t, i) ==
    NewElementID(Then(t, ID(t, Literal(t, i, <<"[", "[">>)), <<"]", "]">>))

\* ElementID <- id:(InlineElementID) / "[#" id:(ID) "]"
ElementID(t, i) ==
    OrElse(InlineElementID(t, i),
           NewElementID(Then(t, ID(t, Literal(t, i, <<"[", "#">>)), <<"]">>)))

\* ElementTitle <- "." !"." !WS title:(!NEWLINE .)+
ElementTitle(t, i) ==
    LET Title(e) == IF e > i + 1 THEN COk(e, [title |-> Str(SubSeq(t, i + 1, e - 1))])
                    ELSE CFail
    IN  IF At(t, i) = "." /\ At(t, i + 1) # "." /\ At(t, i + 1) \notin WSChars
        THEN Title(Scan(t, i + 1, NEWLINEChars)) ELSE CFail

\* the literals of the rules
TIP == <<"T", "I", "P">>

NOTE == <<"N", "O", "T", "E">>

IMPORTANT == <<"I", "M", "P", "O", "R", "T", "A", "N", "T">>

WARNING == <<"W", "A", "R", "N", "I", "N", "G">>

CAUTION == <<"C", "A", "U", "T", "I", "O", "N">>

HORIZONTAL == <<"[", "h", "o", "r", "i", "z", "o", "n", "t", "a", "l", "]">>

VERSE == <<"[", "v", "e", "r", "s", "e">>

\* one alternative of AdmonitionKind
Kind(t, i, lit, kind) ==
    LET After(e) == IF e = 0 THEN CFail ELSE COk(e, kind)
    IN  After(Literal(t, i, lit))

\* AdmonitionKind <- "TIP" / "NOTE" / "IMPORTANT" / "WARNING" / "CAUTION"
AdmonitionKind(t, i) ==
    OrElse(Kind(t, i, TIP, "tip"),
    OrElse(Kind(t, i, NOTE, "note"),
    OrElse(Kind(t, i, IMPORTANT, "important"),
    OrElse(Kind(t, i, WARNING, "warning"),
           Kind(t, i, CAUTION, "caution")))))

\* types.NewAdmonitionAttribute
NewAdmonitionAttribute(k) ==
    IF k.i = 0 THEN CFail ELSE COk(k.i, [admonitionKind |-> k.v])

\* AdmonitionMarkerAttribute <- "[" k:(AdmonitionKind) "]"
AdmonitionMarkerAttribute(t, i) ==
    NewAdmonitionAttribute(Then(t, AdmonitionKind(t, Literal(t, i, <<"[">>)), <<"]">>))

\* HorizontalLayout <- "[horizontal]"
HorizontalLayout(t, i) ==
    IF Literal(t, i, HORIZONTAL) = 0 THEN CFail
    ELSE COk(Literal(t, i, HORIZONTAL), [layout |-> "horizontal"])

\* AttributeKey <- key:(!WS !"=" !"," !"]" .)+ WS*
AttributeKey(t, i) ==
    LET Key(e) == IF e = i THEN CFail ELSE COk(SkipWS(t, e), Str(SubSeq(t, i, e - 1)))
    IN  IF i = 0 THEN CFail ELSE Key(Scan(t, i, WSChars \cup {"=", ",", "]"}))

\* AttributeValue <- WS* value:(!WS !"=" !"]" .)* WS*
AttributeValue(t, i) ==
    LET Value(from, to) == COk(SkipWS(t, to), Str(SubSeq(t, from, to - 1)))
        From(from) == Value(from, Scan(t, from, WSChars \cup {"=", "]"}))
    IN  From(SkipWS(t, i))

\* GenericAttribute <- key:(AttributeKey) "=" value:(AttributeValue) / key:(AttributeKey)
\* types.NewGenericAttribute: the value of a key without value is nil
\* (no text of the model has quotes for stringify to remove)
GenericAttribute(t, i) ==
    LET Valued(key, value) == COk(value.i, key.v :> value.v)
        Keyed(key) ==
            IF key.i = 0 THEN CFail
            ELSE IF At(t, key.i) = "=" THEN Valued(key, AttributeValue(t, key.i + 1))
            ELSE COk(key.i, key.v :> NULL)
    IN  Keyed(AttributeKey(t, i))

\* OtherGenericAttribute <- "," WS* key:(AttributeKey) "=" value:(AttributeValue)
\*                        / "," WS* key:(AttributeKey)
OtherGenericAttribute(t, i) ==
    IF At(t, i) = "," THEN GenericAttribute(t, SkipWS(t, i + 1)) ELSE CFail

RECURSIVE OtherGenericAttributes(_, _, _)
\* attributes:(OtherGenericAttribute)* after the attributes `group`;
\* types.NewAttributeGroup: a later attribute overwrites an earlier one
OtherGenericAttributes(t, i, group) ==
    LET More(a) == IF a.i = 0 THEN COk(i, group)
                   ELSE OtherGenericAttributes(t, a.i, a.v @@ group)
    IN  More(OtherGenericAttribute(t, i))

\* AttributeGroup <- "[" attribute:(GenericAttribute)
\*                   attributes:(OtherGenericAttribute)* "]"
AttributeGroup(t, i) ==
    LET Others(first) ==
            IF first.i = 0 THEN CFail
            ELSE Then(t, OtherGenericAttributes(t, first.i, first.v), <<"]">>)
    IN  Others(GenericAttribute(t, Literal(t, i, <<"[">>)))

RECURSIVE TrimLeft(_)
TrimLeft(cs) ==
    IF cs # <<>> /\ Head(cs) \in WSChars \cup NEWLINEChars THEN TrimLeft(Tail(cs)) ELSE cs

RECURSIVE TrimRight(_)
TrimRight(cs) ==
    IF cs # <<>> /\ cs[Len(cs)] \in WSChars \cup NEWLINEChars
    THEN TrimRight(SubSeq(cs, 1, Len(cs) - 1)) ELSE cs

\* strings.TrimSpace
TrimSpace(cs) == TrimRight(TrimLeft(cs))

\* types.NewVerseAttributes
NewVerseAttributes(author, title) ==
    [kind |-> "verse", verseAuthor |-> Str(TrimSpace(author)),
     verseTitle |-> Str(TrimSpace(title))]

\* VerseAuthor, VerseTitle <- (!EOL !"," !"]" .)* : the index after it
VerseAuthor(t, i) == Scan(t, i, NEWLINEChars \cup {",", "]"})

\* VerseAttributes <- "[verse" WS* "," author:(VerseAuthor) "," title:(VerseTitle) "]"
\*                  / "[verse" WS* "," author:(VerseAuthor) "]"
\*                  / "[verse" WS* "]"
VerseAttributes(t, i) ==
    LET Titled(a, b, c) ==
            IF At(t, c) = "]"
            THEN COk(c + 1, NewVerseAttributes(SubSeq(t, a + 1, b - 1),
                                               SubSeq(t, b + 1, c - 1)))
            ELSE CFail
        Authored(a, b) ==
            OrElse(IF At(t, b) = "," THEN Titled(a, b, VerseAuthor(t, b + 1)) ELSE CFail,
                   IF At(t, b) = "]"
                   THEN COk(b + 1, NewVerseAttributes(SubSeq(t, a + 1, b - 1), <<>>))
                   ELSE CFail)
        Marked(a) ==
            IF a = 0 THEN CFail
            ELSE OrElse(IF At(t, a) = "," THEN Authored(a, VerseAuthor(t, a + 1))
                        ELSE CFail,
                        IF At(t, a) = "]" THEN COk(a + 1, NewVerseAttributes(<<>>, <<>>))
                        ELSE CFail)
    IN  Marked(SkipWS(t, Literal(t, i, VERSE)))

\* ElementAttribute <- attr:(ElementID / ElementTitle / AdmonitionMarkerAttribute
\*                          / HorizontalLayout / AttributeGroup) WS* EOL
ElementAttributeAt(t, i) ==
    EndOfLine(t, OrElse(ElementID(t, i),
                 OrElse(ElementTitle(t, i),
                 OrElse(AdmonitionMarkerAttribute(t, i),
                 OrElse(HorizontalLayout(t, i), AttributeGroup(t, i))))))

\* MasqueradeAttribute <- attr:(VerseAttributes) WS* EOL
MasqueradeAttributeAt(t, i) == EndOfLine(t, VerseAttributes(t, i))


\* ------------------------------------------------------------------
\* The text of the lines
\* ------------------------------------------------------------------
\* the characters of a line of each class, without its NEWLINE (a grave
\* accent cannot stand in a string of TLA+: it is written ~)
Texts ==
    [text |-> <<"a", " ", "b">>,
     blank |-> <<>>,
     EOF |-> <<>>,
     fenced |-> <<"~", "~", "~">>,
     listing |-> <<"-", "-", "-", "-">>,
     example |-> <<"=", "=", "=", "=">>,
     comment |-> <<"/", "/", "/", "/">>,
     verse |-> <<"_", "_", "_", "_">>,
     literal |-> <<".", ".", ".", ".">>,
     listingX |-> <<"-", "-", "-", "-", "f", "o", "o">>,
     verseX |-> <<"_", "_", "_", "_", "f", "o", "o">>,
     commentX |-> <<"/", "/", "/", "/", "f", "o", "o">>,
     title0 |-> <<"=", " ", "t", "0">>,
     title1 |-> <<"=", "=", " ", "t", "1">>,
     title2 |-> <<"=", "=", "=", " ", "t", "2">>,
     title3 |-> <<"=", "=", "=", "=", " ", "t", "3">>,
     title4 |-> <<"=", "=", "=", "=", "=", " ", "t", "4">>,
     title5 |-> <<"=", "=", "=", "=", "=", "=", " ", "t", "5">>,
     olist |-> <<".", " ", "i", "t", "e", "m">>,
     ulist |-> <<"*", " ", "i", "t", "e", "m">>,
     llist |-> <<"t", "e", "r", "m", ":", ":", " ", "d", "e", "s", "c">>,
     idattr |-> <<"[", "[", "t", "h", "e", "t", "i", "t", "l", "e", "]", "]">>,
     idshort |-> <<"[", "#", "i", "d", "]">>,
     attrKV |-> <<"[", "k", "=", "v", "]">>,
     attrKW |-> <<"[", "k", "=", "w", "]">>,
     attrJX |-> <<"[", "j", "=", "x", "]">>,
     linkattr |-> <<"[", "l", "i", "n", "k", "=", "u", "]">>,
     linkattrWS |-> <<"[", "l", "i", "n", "k", "=", " ", "u", " ", " ", "]">>,
     linkattrSP |-> <<"[", " ", "l", "i", "n", "k", "=", "u", "]">>,
     idshortSP |-> <<"[", " ", "#", "i", "d", " ", "]">>,
     linkattrOpen |-> <<"[", "l", "i", "n", "k", "=", "u">>,
     idshortOpen |-> <<"[", "#", "i", "d">>,
     textBracket |-> <<"c", "]">>,
     verseattr |-> <<"[", "v", "e", "r", "s", "e", ",", " ", "j", " ", "d", ",", " ", "v", " ", "t", "]">>,
     verseattrAuthor |-> <<"[", "v", "e", "r", "s", "e", ",", " ", "j", " ", "d", "]">>,
     verseattrPlain |-> <<"[", "v", "e", "r", "s", "e", "]">>,
     tipattr |-> <<"[", "T", "I", "P", "]">>,
     noteattr |-> <<"[", "N", "O", "T", "E", "]">>,
     importantattr |-> <<"[", "I", "M", "P", "O", "R", "T", "A", "N", "T", "]">>,
     warningattr |-> <<"[", "W", "A", "R", "N", "I", "N", "G", "]">>,
     cautionattr |-> <<"[", "C", "A", "U", "T", "I", "O", "N", "]">>]

\* the characters of the line of a class
Text(c) == Texts[c]

\* the line at p with the NEWLINE that ends it
LineText(p) == Text(LineAt(p)) \o (IF NEWLINE(p) THEN <<"\n">> ELSE <<>>)

RECURSIVE TextFrom(_)
\* the input from the line at p on
TextFrom(p) == IF p > Len(input) THEN <<>> ELSE LineText(p) \o TextFrom(p + 1)

\* the cursor after a match that ends before the index e of the text
\* of the lines from p on
CursorAfter(p, t, e) ==
    IF e > Len(t) THEN EOFPos
    ELSE p + Cardinality({k \in 1..(e - 1) : t[k] = "\n"})

\* ElementAttribute at the cursor: the cursor after it and its attributes
\* (every alternative of the rule starts with "[" or with ".")
ElementAttributeLine(p) ==
    LET Matched(t, r) == IF r.i = 0 THEN Fail ELSE Ok(CursorAfter(p, t, r.i), r.v)
        Read(t) == Matched(t, ElementAttributeAt(t, 1))
    IN  IF At(Text(LineAt(p)), 1) \in {"[", "."} THEN Read(TextFrom(p)) ELSE Fail

\* MasqueradeAttribute at the cursor (the rule starts with "[")
MasqueradeAttributeLine(p) ==
    LET Matched(t, r) == IF r.i = 0 THEN Fail ELSE Ok(CursorAfter(p, t, r.i), r.v)
        Read(t) == Matched(t, MasqueradeAttributeAt(t, 1))
    IN  IF At(Text(LineAt(p)), 1) = "[" THEN Read(TextFrom(p)) ELSE Fail

\* ParagraphAttribute <- MasqueradeAttribute / ElementAttribute
ParagraphAttribute(p) ==
    LET Second(first) == IF first.s = "ok" THEN first ELSE ElementAttributeLine(p)
    IN  Second(MasqueradeAttributeLine(p))

\* VerseBlockAttribute <- attribute:(VerseAttributes) WS* EOL
\*                      / attribute:(ElementAttribute)
VerseBlockAttribute(p) ==
    LET Second(first) == IF first.s = "ok" THEN first ELSE ElementAttributeLine(p)
    IN  Second(MasqueradeAttributeLine(p))

\* &ElementAttribute, !ElementAttribute
ElementAttribute(p) == ElementAttributeLine(p).s = "ok"

\* the attribute map of an attribute line
AttributeOf(c) == ElementAttributeAt(Text(c), 1).v

RECURSIVE InlineWords(_, _)
\* (!EOL WS* !InlineElementID InlineElement WS*)* : the index after the
\* last iteration.  The InlineElement of every text of the model is a
\* Word <- (!NEWLINE !WS .)+
InlineWords(t, i) ==
    LET Word(j, e) ==
            IF e = j \/ InlineElementID(t, j).i # 0 THEN i
            ELSE InlineWords(t, SkipWS(t, e))
        Spaces(j) == Word(j, Scan(t, j, WSChars \cup NEWLINEChars))
    IN  IF CharEOL(t, i) # 0 THEN i ELSE Spaces(SkipWS(t, i))

\* elements:(!EOL WS* !InlineElementID InlineElement WS*)+ EOL
\* { return types.NewInlineElements(elements) } : the words and the
\* spaces between them, merged into one string
InlineElementsAt(t, i) ==
    LET Merged(e) ==
            IF e = i \/ CharEOL(t, e) = 0 THEN CFail
            ELSE COk(CharEOL(t, e), Str(TrimSpace(SubSeq(t, i, e - 1))))
    IN  Merged(InlineWords(t, i))

\* InlineElements on the line of each class: the EOL that ends the rule
\* is the NEWLINE of the line or the end of the input
InlineElementsOfLine == [c \in DOMAIN Texts |-> InlineElementsAt(Texts[c], 1)]


\* ------------------------------------------------------------------
\* Quoted texts (bold, italic and monospace) and their escaped forms
\* ------------------------------------------------------------------
\* the punctuation of bold, italic and monospace text; the backquote of
\* monospace text is written ~ in the texts of the model
BoldMark == "*"

ItalicMark == "_"

MonospaceMark == "~"

QuotePunctuation == {BoldMark, ItalicMark, MonospaceMark}

\* Backslashes that takes one backslash at most
BackslashesOnce(t, i) == IF At(t, i) = "\\" THEN i + 1 ELSE i

RECURSIVE Backslashes(_, _)
\* `\`* : the index after the backslashes
Backslashes(t, i) == IF At(t, i) = "\\" THEN Backslashes(t, i + 1) ELSE i

\* QuotedTextWord <- (!NEWLINE !WS !"*" !"_" !"`" .)+
QuotedTextWord(t, i) ==
    LET Matched(e) == IF e = i THEN CFail ELSE COk(e, SubSeq(t, i, e - 1))
    IN  Matched(Scan(t, i, NEWLINEChars \cup WSChars \cup QuotePunctuation))

\* WordWithQuotePunctuation <- (!NEWLINE !WS .)+ { return c.text, nil }
WordWithQuotePunctuation(t, i) ==
    LET Matched(e) == IF e = i THEN CFail ELSE COk(e, SubSeq(t, i, e - 1))
    IN  Matched(Scan(t, i, NEWLINEChars \cup WSChars))

RECURSIVE QuotedText(_, _)

\* QuotedTextContentElement <- QuotedText / QuotedTextWord
\*     / WordWithQuotePunctuation
QuotedTextContentElement(t, i) ==
    OrElse(QuotedText(t, i),
           OrElse(QuotedTextWord(t, i), WordWithQuotePunctuation(t, i)))

RECURSIVE QuotedTextContentRest(_, _, _)
\* (WS+ QuotedTextContentElement)* after the elements v
QuotedTextContentRest(t, i, v) ==
    LET Element(ws, e) ==
            IF e.i = 0 THEN COk(i, v)
            ELSE QuotedTextContentRest(t, e.i, v \o SubSeq(t, i, ws - 1) \o e.v)
        Spaces(ws) ==
            IF ws = i THEN COk(i, v) ELSE Element(ws, QuotedTextContentElement(t, ws))
    IN  Spaces(SkipWS(t, i))

\* QuotedTextContent <- QuotedTextContentElement (WS+ QuotedTextContentElement)*
QuotedTextContent(t, i) ==
    LET First(e) == IF e.i = 0 THEN CFail ELSE QuotedTextContentRest(t, e.i, e.v)
    IN  First(QuotedTextContentElement(t, i))

\* open content:(QuotedTextContent) close
Enclosed(t, i, open, close) ==
    LET Closed(content) ==
            IF content.i = 0 \/ Literal(t, content.i, close) = 0 THEN CFail
            ELSE COk(Literal(t, content.i, close), content.v)
        Opened(o) == IF o = 0 THEN CFail ELSE Closed(QuotedTextContent(t, o))
    IN  Opened(Literal(t, i, open))

\* types.NewQuotedText(kind, content)
NewQuotedText(kind, content) ==
    <<[type |-> "QuotedText", kind |-> kind, elements |-> content]>>

\* NewEscapedQuotedText that removes one backslash whatever the punctuation
NewEscapedQuotedTextRemovingOne(backslashes, punctuation, content) ==
    Tail(backslashes) \o punctuation \o content \o punctuation

\* types.NewEscapedQuotedText(backslashes, punctuation, content): the
\* backslashes lose as many characters as the punctuation has, all of
\* them when they are not more; the result is the text of the
\* backslashes left, the punctuation, the content and the punctuation
NewEscapedQuotedText(backslashes, punctuation, content) ==
    (IF Len(backslashes) > Len(punctuation)
     THEN SubSeq(backslashes, Len(punctuation) + 1, Len(backslashes))
     ELSE <<>>) \o punctuation \o content \o punctuation

\* one alternative of BoldText, ItalicText, MonospaceText:
\*   open content:(QuotedTextContent) close
\*       { return types.NewQuotedText(kind, prefix + content) }
\* (its !`\` is implied by the punctuation that follows)
QuotedAlternative(t, i, open, close, kind, prefix) ==
    LET Action(content) ==
            IF content.i = 0 THEN CFail
            ELSE COk(content.i, NewQuotedText(kind, prefix \o content.v))
    IN  Action(Enclosed(t, i, open, close))

\* one alternative of EscapedBoldText, EscapedItalicText,
\* EscapedMonospaceText, with at least `least` backslashes:
\*   backslashes:(`\` `\`*) open content:(QuotedTextContent) close
\*       { return types.NewEscapedQuotedText(backslashes, punctuation,
\*                                           prefix + content) }
EscapedAlternative(t, i, least, open, close, punctuation, prefix) ==
    LET Action(b, content) ==
            IF content.i = 0 THEN CFail
            ELSE COk(content.i,
                     NewEscapedQuotedText(SubSeq(t, i, b - 1), punctuation,
                                          prefix \o content.v))
        After(b) ==
            IF b - i < least THEN CFail ELSE Action(b, Enclosed(t, b, open, close))
    IN  After(Backslashes(t, i))

\* the three alternatives of a quoted text of punctuation c: double,
\* unbalanced double, single
QuotedTextOf(t, i, c, kind) ==
    OrElse(QuotedAlternative(t, i, <<c, c>>, <<c, c>>, kind, <<>>),
           OrElse(QuotedAlternative(t, i, <<c, c>>, <<c>>, kind, <<c>>),
                  QuotedAlternative(t, i, <<c>>, <<c>>, kind, <<>>)))

\* the three alternatives of an escaped quoted text of punctuation c
EscapedQuotedTextOf(t, i, c) ==
    OrElse(EscapedAlternative(t, i, 2, <<c, c>>, <<c, c>>, <<c, c>>, <<>>),
           OrElse(EscapedAlternative(t, i, 1, <<c, c>>, <<c>>, <<c>>, <<c>>),
                  EscapedAlternative(t, i, 1, <<c>>, <<c>>, <<c>>, <<>>)))

BoldText(t, i) == QuotedTextOf(t, i, BoldMark, "bold")

EscapedBoldText(t, i) == EscapedQuotedTextOf(t, i, BoldMark)

ItalicText(t, i) == QuotedTextOf(t, i, ItalicMark, "italic")

EscapedItalicText(t, i) == EscapedQuotedTextOf(t, i, ItalicMark)

MonospaceText(t, i) == QuotedTextOf(t, i, MonospaceMark, "monospace")

EscapedMonospaceText(t, i) == EscapedQuotedTextOf(t, i, MonospaceMark)

\* QuotedText <- BoldText / ItalicText / MonospaceText /
\*     EscapedBoldText / EscapedItalicText / EscapedMonospaceText
QuotedText(t, i) ==
    OrElse(BoldText(t, i),
    OrElse(ItalicText(t, i),
    OrElse(MonospaceText(t, i),
    OrElse(EscapedBoldText(t, i),
    OrElse(EscapedItalicText(t, i), EscapedMonospaceText(t, i))))))

\* ------------------------------------------------------------------
\* Element attributes (types.NewElementAttributes)
\* ------------------------------------------------------------------
RECURSIVE NewElementAttributesFirstWins(_)
\* NewElementAttributes that keeps the value a key already has
NewElementAttributesFirstWins(attributes) ==
    IF attributes = <<>> THEN EmptyMap
    ELSE LET n == Len(attributes)
         IN  NewElementAttributesFirstWins(SubSeq(attributes, 1, n - 1)) @@ attributes[n]

RECURSIVE NewElementAttributes(_)
\* the maps of the attribute list are copied in order into one map:
\* a later value overwrites an earlier one (a nil entry, which the
\* code ignores, is written as the empty map)
NewElementAttributes(attributes) ==
    IF attributes = <<>> THEN EmptyMap
    ELSE LET n == Len(attributes)
         IN  attributes[n] @@ NewElementAttributes(SubSeq(attributes, 1, n - 1))

\* ------------------------------------------------------------------
\* Lists (types.NewList, NewOrderedList, NewUnorderedList, NewLabeledList)
\*
\* The Go code works on pointers to the items: `heap` maps the index of
\* an item in the flat input sequence to the current value of the item,
\* and the buffers hold indexes.  A list value holds copies of the items
\* taken when the list is built.
\* ------------------------------------------------------------------
UnknownNumberingStyle == "unknown"

UnknownBulletStyle == "unkwown"

numberingStyles ==
    <<"arabic", "decimal", "loweralpha", "upperalpha",
      "lowerroman", "upperroman", "lowergreek", "uppergreek">>

\* a slice read at a map key that is absent is the nil slice
Layer(buf, k) == IF k \in DOMAIN buf THEN buf[k] ELSE <<>>

\* delete(bufferedItemsPerLevel, k)
Delete(buf, k) == [j \in DOMAIN buf \ {k} |-> buf[j]]

\* buf[k] = append(buf[k], id)
Put(buf, k, ids) == (k :> ids) @@ buf

\* (*OrderedListItem).applyAttributes: numbering style and start
\* position taken from the attributes of the item
applyAttributes(item) ==
    LET overriding == {i \in 1..Len(numberingStyles) :
                          numberingStyles[i] \in DOMAIN item.attrs}
        style == IF overriding = {} THEN item.style
                 ELSE numberingStyles[CHOOSE i \in overriding :
                                         \A j \in overriding : i <= j]
        position == IF "start" \in DOMAIN item.attrs
                       /\ item.attrs["start"] \in Int
                    THEN item.attrs["start"] ELSE item.position
    IN  [item EXCEPT !.style = style, !.position = position]

\* toOrderedList: the list of the buffered items of one level
toOrderedList(items, heap) ==
    LET Positioned(h1) ==
            [id \in DOMAIN h1 |->
                IF \E idx \in 1..Len(items) : items[idx] = id
                THEN [h1[id] EXCEPT
                         !.position = h1[items[1]].position
                                      + ((CHOOSE i \in 1..Len(items) : items[i] = id) - 1),
                         !.style = h1[items[1]].style]
                ELSE h1[id]]
        Listed(h2) ==
            [heap |-> h2,
             list |-> [type |-> "OrderedList", attrs |-> EmptyMap,
                       items |-> [idx \in 1..Len(items) |-> h2[items[idx]]]]]
    IN  IF items = <<>>
        THEN [heap |-> heap,
              list |-> [type |-> "OrderedList", attrs |-> EmptyMap, items |-> <<>>]]
        ELSE Listed(Positioned([heap EXCEPT ![items[1]] = applyAttributes(@)]))

\* AddChild with the child list in the place of the elements of the item
AddChildReplacingElements(heap, id, child) ==
    [heap EXCEPT ![id].elements = <<child>>]

\* parentItem.Elements = append(parentItem.Elements, childList)
AddChild(heap, id, child) ==
    [heap EXCEPT ![id].elements = Append(@, child)]

\* RewrittenLevel that never looks at the styles
RewrittenLevelWithoutStyles(level, style, previousLevel, previousStyle, levelPerStyle) ==
    IF level > previousLevel THEN previousLevel + 1 ELSE previousLevel

\* the level given to an item by the first part of the loop body
\* (the same in NewOrderedList and NewUnorderedList)
RewrittenLevel(level, style, previousLevel, previousStyle, levelPerStyle) ==
    IF level > previousLevel THEN previousLevel + 1
    ELSE IF style # previousStyle
         THEN IF style \in DOMAIN levelPerStyle THEN levelPerStyle[style]
              ELSE previousLevel + 1
         ELSE previousLevel

\* the map levelPerStyle after the first part of the loop body
RecordedLevels(level, style, newLevel, previousLevel, previousStyle, levelPerStyle) ==
    IF level > previousLevel
           \/ (style # previousStyle /\ style \notin DOMAIN levelPerStyle)
    THEN (style :> newLevel) @@ levelPerStyle
    ELSE levelPerStyle

\* NewOrderedList without the assignments to item.Level: the items keep
\* the level of their prefix
OrderedListStepKeepingLevel(st, id) ==
    LET item == st.heap[id]
        lvl == RewrittenLevel(item.level, item.style, st.previousLevel,
                              st.previousStyle, st.lps)
        decreased == lvl < st.previousLevel
        parentLayer == Layer(st.buf, st.previousLevel - 2)
        childLayer == Layer(st.buf, st.previousLevel - 1)
        \* the buffer b1 with the item appended to the layer of its level
        Buffered(b1) ==
            Put(b1, lvl - 1,
                Append(IF lvl > Cardinality(DOMAIN b1) THEN <<>> ELSE Layer(b1, lvl - 1),
                       id))
        \* child is toOrderedList of the layer of the previous level
        Merged(child) ==
            [s |-> "ok",
             heap |-> IF decreased
                      THEN AddChild(child.heap, parentLayer[Len(parentLayer)], child.list)
                      ELSE st.heap,
             buf |-> Buffered(IF decreased THEN Delete(st.buf, st.previousLevel - 1)
                              ELSE st.buf),
             lps |-> RecordedLevels(item.level, item.style, lvl, st.previousLevel,
                                    st.previousStyle, st.lps),
             previousLevel |-> lvl, previousStyle |-> item.style]
    IN  IF item.kind # "O" THEN [st EXCEPT !.s = "error"]   \* not an *OrderedListItem
        ELSE IF item.elements = <<>> THEN [st EXCEPT !.s = "panic"]   \* item.Elements[0]
        ELSE IF decreased /\ (parentLayer = <<>> \/ childLayer = <<>>)
        THEN [st EXCEPT !.s = "panic"]   \* index out of range
        ELSE Merged(toOrderedList(childLayer, st.heap))

\* one iteration of the loop of NewOrderedList over the elements;
\* st = [s, heap, buf, lps, previousLevel, previousStyle]
OrderedListStep(st, id) ==
    LET item == st.heap[id]
        lvl == RewrittenLevel(item.level, item.style, st.previousLevel,
                              st.previousStyle, st.lps)
        decreased == lvl < st.previousLevel
        parentLayer == Layer(st.buf, st.previousLevel - 2)
        childLayer == Layer(st.buf, st.previousLevel - 1)
        \* the buffer b1 with the item appended to the layer of its level
        Buffered(b1) ==
            Put(b1, lvl - 1,
                Append(IF lvl > Cardinality(DOMAIN b1) THEN <<>> ELSE Layer(b1, lvl - 1),
                       id))
        \* child is toOrderedList of the layer of the previous level
        Merged(child) ==
            [s |-> "ok",
             heap |-> IF decreased
                      THEN AddChild(child.heap, parentLayer[Len(parentLayer)], child.list)
                      ELSE [st.heap EXCEPT ![id].level = lvl],
             buf |-> Buffered(IF decreased THEN Delete(st.buf, st.previousLevel - 1)
                              ELSE st.buf),
             lps |-> RecordedLevels(item.level, item.style, lvl, st.previousLevel,
                                    st.previousStyle, st.lps),
             previousLevel |-> lvl, previousStyle |-> item.style]
    IN  IF item.kind # "O" THEN [st EXCEPT !.s = "error"]   \* not an *OrderedListItem
        ELSE IF item.elements = <<>> THEN [st EXCEPT !.s = "panic"]   \* item.Elements[0]
        ELSE IF decreased /\ (parentLayer = <<>> \/ childLayer = <<>>)
        THEN [st EXCEPT !.s = "panic"]   \* index out of range
        ELSE Merged(toOrderedList(childLayer, [st.heap EXCEPT ![id].level = lvl]))

RECURSIVE OrderedListLoop(_, _, _)
OrderedListLoop(st, elements, i) ==
    IF i > Len(elements) \/ st.s # "ok" THEN st
    ELSE OrderedListLoop(OrderedListStep(st, elements[i]), elements, i + 1)

RECURSIVE OrderedListRest(_, _, _)
\* the last loop of NewOrderedList, from the deepest level to level 0;
\* r = [s, heap, result]
OrderedListRest(r, buf, level) ==
    LET items == Layer(buf, level)
        parentLayer == Layer(buf, level - 1)
        \* level 0: item.Position = items[0].Position + idx
        TopLevel(h) ==
            [s |-> "ok", heap |-> h,
             result |-> [idx \in 1..Len(items) |-> h[items[idx]]]]
        Nested(child) ==
            OrderedListRest(
                [r EXCEPT !.heap = AddChild(child.heap, parentLayer[Len(parentLayer)],
                                            child.list)],
                buf, level - 1)
    IN  IF level < 0 \/ r.s # "ok" THEN r
        ELSE IF level = 0
        THEN TopLevel([id \in DOMAIN r.heap |->
                          IF \E idx \in 1..Len(items) : items[idx] = id
                          THEN [r.heap[id] EXCEPT !.position =
                                   r.heap[items[1]].position
                                   + ((CHOOSE i \in 1..Len(items) : items[i] = id) - 1)]
                          ELSE r.heap[id]])
        ELSE IF parentLayer = <<>> THEN [r EXCEPT !.s = "panic"]   \* index out of range
        ELSE Nested(toOrderedList(items, r.heap))

\* the attributes of a list
mergeAttributes(attributes) == NewElementAttributes(attributes)

\* the variables of NewOrderedList before its loop over the elements
OrderedListStart(heap) ==
    [s |-> "ok", heap |-> heap, buf |-> EmptyMap, lps |-> EmptyMap,
     previousLevel |-> 0, previousStyle |-> UnknownNumberingStyle]

\* NewOrderedList after its loop over the elements: the rest of the
\* buffer and the returned list; the result is [s, heap, list]
OrderedListEnd(st, attributes) ==
    LET Listed(r) ==
            IF r.s # "ok" THEN [s |-> r.s, heap |-> r.heap, list |-> NULL]
            ELSE [s |-> "ok", heap |-> r.heap,
                  list |-> [type |-> "OrderedList",
                            attrs |-> mergeAttributes(attributes),
                            items |-> r.result]]
    IN  IF st.s # "ok" THEN [s |-> st.s, heap |-> st.heap, list |-> NULL]
        ELSE Listed(OrderedListRest([s |-> "ok", heap |-> st.heap, result |-> <<>>],
                                    st.buf, Cardinality(DOMAIN st.buf) - 1))

\* NewOrderedList: elements are the indexes of the items in the heap;
\* the result is [s, heap, list]
NewOrderedList(elements, attributes, heap) ==
    OrderedListEnd(OrderedListLoop(OrderedListStart(heap), elements, 1), attributes)


\* nextLevelStyle that returns the style itself for every p
nextLevelStyleItself(b, p) == b

\* BulletStyle.nextLevelStyle(p): the style that follows p, or the
\* style b itself when p is not a known style
nextLevelStyle(b, p) ==
    CASE p = "dash" -> "1asterisk"
      [] p = "1asterisk" -> "2asterisks"
      [] p = "2asterisks" -> "3asterisks"
      [] p = "3asterisks" -> "4asterisks"
      [] p = "4asterisks" -> "5asterisks"
      [] p = "5asterisks" -> "dash"
      [] OTHER -> b

\* (*UnorderedListItem).adjustBulletStyle
adjustBulletStyle(item, p) == [item EXCEPT !.style = nextLevelStyle(item.style, p)]

\* the list made of copies of the buffered items of one level
toUnorderedList(items, heap) ==
    [type |-> "UnorderedList", attrs |-> EmptyMap,
     items |-> [idx \in 1..Len(items) |-> heap[items[idx]]]]

RECURSIVE MergeLevels(_, _, _)
\* the loop `for l := previousLevel; l > item.Level; l--` of
\* NewUnorderedList; st = [s, heap, buf, ...]
MergeLevels(st, l, level) ==
    IF l <= level \/ st.s # "ok" THEN st
    ELSE LET parentLayer == Layer(st.buf, l - 2)
         IN  IF parentLayer = <<>>
             THEN [st EXCEPT !.s = "panic"]   \* index out of range
             ELSE MergeLevels(
                      [st EXCEPT !.heap = AddChild(st.heap,
                                     parentLayer[Len(parentLayer)],
                                     toUnorderedList(Layer(st.buf, l - 1), st.heap)),
                                 !.buf = Delete(st.buf, l - 1)],
                      l - 1, level)

\* one iteration of the loop of NewUnorderedList over the elements
UnorderedListStep(st, id) ==
    LET item0 == st.heap[id]
        item == IF item0.level > st.previousLevel
                THEN adjustBulletStyle(item0, st.previousStyle) ELSE item0
        lvl == RewrittenLevel(item0.level, item.style, st.previousLevel,
                              st.previousStyle, st.lps)
        \* the buffer b1 with the item appended to the layer of its level
        Buffered(b1) ==
            Put(b1, lvl - 1,
                Append(IF lvl > Cardinality(DOMAIN b1) THEN <<>> ELSE Layer(b1, lvl - 1),
                       id))
        Stepped(merged) ==
            IF merged.s # "ok" THEN merged
            ELSE [s |-> "ok", heap |-> merged.heap, buf |-> Buffered(merged.buf),
                  lps |-> RecordedLevels(item0.level, item.style, lvl, st.previousLevel,
                                         st.previousStyle, st.lps),
                  previousLevel |-> lvl, previousStyle |-> item.style]
        Leveled(h0) ==
            Stepped(IF lvl < st.previousLevel
                    THEN MergeLevels([st EXCEPT !.heap = h0], st.previousLevel, lvl)
                    ELSE [st EXCEPT !.heap = h0])
    IN  IF item0.kind # "U" THEN [st EXCEPT !.s = "error"]   \* not an *UnorderedListItem
        ELSE IF item0.elements = <<>> THEN [st EXCEPT !.s = "panic"]   \* item.Elements[0]
        ELSE Leveled([st.heap EXCEPT ![id] = [item EXCEPT !.level = lvl]])

RECURSIVE UnorderedListLoop(_, _, _)
UnorderedListLoop(st, elements, i) ==
    IF i > Len(elements) \/ st.s # "ok" THEN st
    ELSE UnorderedListLoop(UnorderedListStep(st, elements[i]), elements, i + 1)

RECURSIVE UnorderedListRest(_, _, _)
\* the last loop of NewUnorderedList, from the deepest level to level 0
UnorderedListRest(r, buf, level) ==
    IF level < 0 \/ r.s # "ok" THEN r
    ELSE LET items == Layer(buf, level)
         IN  IF level = 0
             THEN [r EXCEPT !.result = [idx \in 1..Len(items) |-> r.heap[items[idx]]]]
             ELSE LET parentLayer == Layer(buf, level - 1)
                  IN  IF parentLayer = <<>>
                      THEN [r EXCEPT !.s = "panic"]   \* index out of range
                      ELSE UnorderedListRest(
                               [r EXCEPT !.heap = AddChild(r.heap,
                                             parentLayer[Len(parentLayer)],
                                             toUnorderedList(items, r.heap))],
                               buf, level - 1)

\* the variables of NewUnorderedList before its loop over the elements
UnorderedListStart(heap) ==
    [s |-> "ok", heap |-> heap, buf |-> EmptyMap, lps |-> EmptyMap,
     previousLevel |-> 0, previousStyle |-> UnknownBulletStyle]

\* NewUnorderedList after its loop over the elements: the rest of the
\* buffer and the returned list; the result is [s, heap, list]
UnorderedListEnd(st, attributes) ==
    LET Listed(r) ==
            IF r.s # "ok" THEN [s |-> r.s, heap |-> r.heap, list |-> NULL]
            ELSE [s |-> "ok", heap |-> r.heap,
                  list |-> [type |-> "UnorderedList",
                            attrs |-> mergeAttributes(attributes),
                            items |-> r.result]]
    IN  IF st.s # "ok" THEN [s |-> st.s, heap |-> st.heap, list |-> NULL]
        ELSE Listed(UnorderedListRest([s |-> "ok", heap |-> st.heap, result |-> <<>>],
                                      st.buf, Cardinality(DOMAIN st.buf) - 1))

\* NewUnorderedList: the result is [s, heap, list]
NewUnorderedList(elements, attributes, heap) ==
    UnorderedListEnd(UnorderedListLoop(UnorderedListStart(heap), elements, 1), attributes)

\* NewLabeledList: the items are copied in order
NewLabeledList(elements, attributes, heap) ==
    [s |-> "ok", heap |-> heap,
     list |-> [type |-> "LabeledList", attrs |-> mergeAttributes(attributes),
               items |-> [idx \in 1..Len(elements) |-> heap[elements[idx]]]]]

\* newList: the list of the kind of the first item
newList(items, attributes, heap) ==
    IF items = <<>> THEN [s |-> "error", heap |-> heap, list |-> NULL]
    ELSE CASE heap[items[1]].kind = "O" -> NewOrderedList(items, attributes, heap)
           [] heap[items[1]].kind = "U" -> NewUnorderedList(items, attributes, heap)
           [] heap[items[1]].kind = "L" -> NewLabeledList(items, attributes, heap)


\* one iteration of the loop of NewList over the elements;
\* st = [s, heap, buffer, stack, previousType], rootType the kind of
\* the first element
NewListStep(st, id, rootType) ==
    LET currentType == st.heap[id].kind
        switch == currentType # st.previousType /\ st.previousType # rootType
        parentItems == Layer(st.buffer, currentType)
        \* the buffer b1 with the item appended to the items of its type
        Buffered(b1) == Put(b1, currentType, Append(Layer(b1, currentType), id))
        \* sublist is newList(buffer[previousType], nil)
        Switched(sublist) ==
            IF switch /\ sublist.s # "ok" THEN [st EXCEPT !.s = sublist.s]
            ELSE IF switch /\ parentItems = <<>>
            THEN [st EXCEPT !.s = "panic"]   \* index out of range
            ELSE [s |-> "ok",
                  heap |-> IF switch
                           THEN AddChild(sublist.heap, parentItems[Len(parentItems)],
                                         sublist.list)
                           ELSE st.heap,
                  buffer |-> Buffered(IF switch THEN Put(st.buffer, st.previousType, <<>>)
                                      ELSE st.buffer),
                  stack |-> IF switch /\ \A i \in 1..Len(st.stack) :
                                             st.stack[i] # st.previousType
                            THEN Append(st.stack, st.previousType) ELSE st.stack,
                  previousType |-> currentType]
    IN  Switched(newList(Layer(st.buffer, st.previousType), <<>>, st.heap))

RECURSIVE NewListLoop(_, _, _, _)
NewListLoop(st, n, i, rootType) ==
    IF i > n \/ st.s # "ok" THEN st
    ELSE NewListLoop(NewListStep(st, i, rootType), n, i + 1, rootType)

RECURSIVE NewListRest(_, _)
\* the loop `for i := len(stack) - 1; i > 0; i--` of NewList (i is the
\* 1-based index in stack)
NewListRest(st, i) ==
    LET parentItems == Layer(st.buffer, st.stack[i - 1])
        \* sublist is newList(buffer[stack[i]], nil)
        Added(sublist) ==
            IF sublist.s # "ok" THEN [st EXCEPT !.s = sublist.s]
            ELSE NewListRest(
                     [st EXCEPT !.heap = AddChild(sublist.heap,
                                    parentItems[Len(parentItems)], sublist.list)],
                     i - 1)
    IN  IF i <= 1 \/ st.s # "ok" THEN st
        ELSE IF Layer(st.buffer, st.stack[i]) = <<>> THEN NewListRest(st, i - 1)
        ELSE IF parentItems = <<>> THEN [st EXCEPT !.s = "panic"]   \* index out of range
        ELSE Added(newList(Layer(st.buffer, st.stack[i]), <<>>, st.heap))

\* the heap of the pointers made by toPtr: element i of the flat
\* sequence is known by the index i
Pointers(elements) == [i \in 1..Len(elements) |-> elements[i]]

\* NewList: elements is the non-empty flat sequence of list items made
\* by the grammar; the result is [s, heap, list]
NewList(elements, attributes) ==
    LET rootType == elements[1].kind
        TopLevel(rest) ==
            IF rest.s # "ok" THEN [s |-> rest.s, heap |-> rest.heap, list |-> NULL]
            ELSE newList(Layer(rest.buffer, rootType), attributes, rest.heap)
        Rest(st) == TopLevel(NewListRest(st, Len(st.stack)))
    IN  IF elements = <<>> THEN [s |-> "panic", heap |-> <<>>, list |-> NULL]
        ELSE Rest(NewListLoop(
                      [s |-> "ok", heap |-> Pointers(elements), buffer |-> EmptyMap,
                       stack |-> <<rootType>>, previousType |-> rootType],
                      Len(elements), 1, rootType))


\* ------------------------------------------------------------------
\* AST nodes
\* ------------------------------------------------------------------
NewBlankLine == [type |-> "BlankLine"]

NewParagraph(lines, attributes) ==
    [type |-> "Paragraph", attrs |-> NewElementAttributes(attributes),
     lines |-> lines]

NewStringElement(content) == [type |-> "StringElement", content |-> content]

\* the Verbatim substitution: every line becomes a StringElement
Verbatim(content) == [i \in 1..Len(content) |-> NewStringElement(content[i])]

\* NewDelimitedBlock that drops the attributes above the block
NewDelimitedBlockWithoutAttributes(kind, elements, attributes) ==
    [type |-> "DelimitedBlock", attrs |-> [kind |-> kind], elements |-> elements]

NewDelimitedBlock(kind, elements, attributes) ==
    [type |-> "DelimitedBlock",
     attrs |-> [kind |-> kind] @@ NewElementAttributes(attributes),
     elements |-> elements]

NewLiteralBlock(content) == [type |-> "LiteralBlock", lines |-> content]

\* the id made from the content of a title that has no explicit id
ReplaceNonAlphanumerics(content) == "_" \o content

NewSectionTitle(content, attributes) ==
    LET attrbs == NewElementAttributes(attributes)
    IN  [attrs |-> IF "elementID" \in DOMAIN attrbs THEN attrbs
                   ELSE [elementID |-> ReplaceNonAlphanumerics(content)] @@ attrbs,
         content |-> content]

NewSection(level, sectionTitle, elements) ==
    [type |-> "Section", level |-> level, title |-> sectionTitle,
     elements |-> elements]

NewListItem(kind, level, style, elements, attributes) ==
    [kind |-> kind, level |-> level, style |-> style, position |-> 1,
     attrs |-> NewElementAttributes(attributes), elements |-> elements]

TableOfContentsMacro == [type |-> "TableOfContentsMacro"]

NewPreamble(elements) == [type |-> "Preamble", elements |-> elements]

IsSection(block) == block.type = "Section"


\* ------------------------------------------------------------------
\* The grammar.  A rule is an operator from the cursor to a parse
\* result; Apply gives the rule of a name, so that the repetitions and
\* the ordered choices can be written once.
\* ------------------------------------------------------------------
RECURSIVE Apply(_, _)

RECURSIVE ZeroOrMore(_, _, _)
\* e* : the body is tried until it fails.  A body that matches without
\* moving the cursor matches again at the same place, for ever.
ZeroOrMore(rule, p, vals) ==
    LET Matched(r) ==
            IF Aborted(r) THEN r
            ELSE IF r.s = "fail" THEN Ok(p, vals)
            ELSE IF r.p = p THEN Loop
            ELSE ZeroOrMore(rule, r.p, Append(vals, r.v))
    IN  Matched(Apply(rule, p))

\* e+ : one match of the body, then e*
OneOrMore(rule, p) ==
    LET Matched(r) == IF r.s # "ok" THEN r ELSE ZeroOrMore(rule, r.p, <<r.v>>)
    IN  Matched(Apply(rule, p))

RECURSIVE Choice(_, _, _)
\* e1 / e2 / ... : the first alternative that matches
Choice(rules, i, p) ==
    LET Matched(r) == IF r.s = "fail" THEN Choice(rules, i + 1, p) ELSE r
    IN  IF i > Len(rules) THEN Fail ELSE Matched(Apply(rules[i], p))

RECURSIVE BlankLineRun(_)
\* BlankLine that takes a whole run of blank lines as one
BlankLineRun(p) ==
    IF LineAt(p) # "blank" THEN Fail
    ELSE IF LineAt(p + 1) = "blank" THEN BlankLineRun(p + 1)
    ELSE Ok(p + 1, NewBlankLine)

\* BlankLine <- !EOF WS* EOL
BlankLine(p) == IF LineAt(p) = "blank" THEN Ok(p + 1, NewBlankLine) ELSE Fail

\* the prefix of a line: OrderedListItemPrefix, UnorderedListItemPrefix,
\* (LabeledListItemTerm LabeledListItemSeparator)
OrderedListItemPrefix(p) == LineAt(p) = "olist"

UnorderedListItemPrefix(p) == LineAt(p) = "ulist"

LabeledListItemPrefix(p) == LineAt(p) = "llist"

\* !("="+ WS+ !NEWLINE) fails on these lines
SectionTitlePrefix(p) == LineAt(p) \in TitleLines

\* InlineElements without its !BlockDelimiter
InlineElementsOfDelimiters(p) ==
    LET Matched(r) == IF r.i = 0 THEN Fail ELSE Ok(p + 1, r.v)
    IN  IF ~EOF(p) THEN Matched(InlineElementsOfLine[LineAt(p)]) ELSE Fail

\* InlineElements <- comment / !EOF !BlockDelimiter
\*                   elements:(!EOL WS* !InlineElementID InlineElement WS*)+ EOL
InlineElements(p) ==
    LET Matched(r) == IF r.i = 0 THEN Fail ELSE Ok(p + 1, r.v)
    IN  IF ~EOF(p) /\ ~BlockDelimiter(p) THEN Matched(InlineElementsOfLine[LineAt(p)])
        ELSE Fail

\* Paragraph <- attributes:(ParagraphAttribute)* !("="+ WS+ !NEWLINE)
\*              lines:(InlineElements)+
Paragraph(p) ==
    LET Action(attributes, lines) ==
            IF SectionTitlePrefix(attributes.p) \/ lines.s # "ok" THEN Fail
            ELSE Ok(lines.p, NewParagraph(lines.v, attributes.v))
        Lines(attributes) == Action(attributes, OneOrMore("InlineElements", attributes.p))
    IN  Lines(ZeroOrMore("ParagraphAttribute", p, <<>>))

\* ListParagraphLine <- !(OrderedListItemPrefix) !(UnorderedListItemPrefix)
\*     !(LabeledListItemTerm LabeledListItemSeparator) !(ListItemContinuation)
\*     !(ElementAttribute) !(BlockDelimiter) line:(InlineElements)
ListParagraphLine(p) ==
    IF OrderedListItemPrefix(p) \/ UnorderedListItemPrefix(p)
           \/ LabeledListItemPrefix(p) \/ ElementAttribute(p) \/ BlockDelimiter(p)
    THEN Fail ELSE InlineElements(p)

\* the ListParagraph of an item: its first line is the rest of the line
\* that holds the prefix of the item, at p; then (ListParagraphLine)*
ListParagraph(p) ==
    LET Action(lines) == Ok(lines.p, NewParagraph(lines.v, <<>>))
    IN  Action(ZeroOrMore("ListParagraphLine", p + 1, <<"item">>))

\* one optional blank line
OptionalBlankLine(p) == IF LineAt(p) = "blank" THEN p + 1 ELSE p

\* OrderedListItem <- attributes:(ElementAttribute)* prefix:(OrderedListItemPrefix)
\*                    content:(OrderedListItemContent) BlankLine?
OrderedListItem(p) ==
    LET Action(attributes, content) ==
            IF ~OrderedListItemPrefix(attributes.p) THEN Fail
            ELSE Ok(OptionalBlankLine(content.p),
                    NewListItem("O", 1, "arabic", <<content.v>>, attributes.v))
        Content(attributes) == Action(attributes, ListParagraph(attributes.p))
    IN  Content(ZeroOrMore("ElementAttribute", p, <<>>))

\* UnorderedListItem <- prefix:(UnorderedListItemPrefix)
\*                      content:(UnorderedListItemContent) BlankLine?
UnorderedListItem(p) ==
    LET Action(content) ==
            IF ~UnorderedListItemPrefix(p) THEN Fail
            ELSE Ok(OptionalBlankLine(content.p),
                    NewListItem("U", 1, "1asterisk", <<content.v>>, <<>>))
    IN  Action(ListParagraph(p))

\* LabeledListItem <- term:(LabeledListItemTerm) LabeledListItemSeparator
\*                    description:(LabeledListItemDescription)
LabeledListItem(p) ==
    LET Action(content) ==
            IF ~LabeledListItemPrefix(p) THEN Fail
            ELSE Ok(content.p, NewListItem("L", 0, "none", <<content.v>>, <<>>))
    IN  Action(ListParagraph(p))

\* ListItems <- (OrderedListItem / UnorderedListItem / LabeledListItem)+
ListItem(p) ==
    Choice(<<"OrderedListItem", "UnorderedListItem", "LabeledListItem">>, 1, p)

\* List <- attributes:(ElementAttribute)* elements:ListItems
\* { return types.NewList(elements, attributes) }
List(p) ==
    LET Listed(elements, list) ==
            IF elements.s # "ok" THEN Fail
            ELSE IF list.s # "ok" THEN Panic
            ELSE Ok(elements.p, list.list)
        Items(attributes, elements) ==
            Listed(elements, NewList(elements.v, attributes.v))
        Attributes(attributes) == Items(attributes, OneOrMore("ListItem", attributes.p))
    IN  Attributes(ZeroOrMore("ElementAttribute", p, <<>>))


\* BlockParagraphLine <- !(OrderedListItemPrefix) !(UnorderedListItemPrefix)
\*     !(LabeledListItemTerm LabeledListItemSeparator) !(ListItemContinuation)
\*     !(BlockDelimiter) line:(InlineElements)
BlockParagraphLine(p) ==
    IF OrderedListItemPrefix(p) \/ UnorderedListItemPrefix(p)
           \/ LabeledListItemPrefix(p) \/ BlockDelimiter(p)
    THEN Fail ELSE InlineElements(p)

\* BlockParagraph <- lines:(BlockParagraphLine)+
BlockParagraph(p) ==
    LET Action(lines) ==
            IF lines.s # "ok" THEN lines ELSE Ok(lines.p, NewParagraph(lines.v, <<>>))
    IN  Action(OneOrMore("BlockParagraphLine", p))

\* the content of a fenced, listing or example block
BlockContent(p) == Choice(<<"List", "BlockParagraph", "BlankLine">>, 1, p)

\* ((XBlockDelimiter WS* EOL) / EOF) : the cursor after the closing
\* delimiter, or 0 when neither alternative matches
CloseDelimiter(delimiter, p) ==
    IF LineAt(p) = delimiter THEN p + 1 ELSE IF EOF(p) THEN p ELSE 0

\* FencedBlock, ListingBlock, ExampleBlock <- attributes:(ElementAttribute)*
\*     XBlockDelimiter WS* NEWLINE content:(List / BlockParagraph / BlankLine)*
\*     ((XBlockDelimiter WS* EOL) / EOF)
ContentBlock(delimiter, p) ==
    LET Action(attributes, content) ==
            IF ~(LineAt(attributes.p) = delimiter /\ NEWLINE(attributes.p)) THEN Fail
            ELSE IF content.s # "ok" THEN content
            ELSE IF CloseDelimiter(delimiter, content.p) = 0 THEN Fail
            ELSE Ok(CloseDelimiter(delimiter, content.p),
                    NewDelimitedBlock(delimiter, content.v, attributes.v))
        Content(attributes) ==
            Action(attributes, ZeroOrMore("BlockContent", attributes.p + 1, <<>>))
    IN  Content(ZeroOrMore("ElementAttribute", p, <<>>))

FencedBlock(p) == ContentBlock("fenced", p)

ListingBlock(p) == ContentBlock("listing", p)

ExampleBlock(p) == ContentBlock("example", p)

\* VerseBlockLine <- line:(VerseBlockLineContent) EOL
\* VerseBlockLineContent <- content:(!VerseBlockDelimiter !EOL .)*
\* the content stops before a verse delimiter; EOL matches the NEWLINE
\* that ends a line, and the end of input without consuming anything
VerseBlockLine(p) ==
    IF EOF(p) THEN Ok(p, "")
    ELSE IF DelimiterOf(LineAt(p)) = "verse" THEN Fail
    ELSE Ok(p + 1, LineAt(p))

\* VerseBlockParagraph <- lines:(VerseBlockLine)*
VerseBlockParagraph(p) ==
    LET Action(lines) ==
            IF lines.s # "ok" THEN lines ELSE Ok(lines.p, NewParagraph(lines.v, <<>>))
    IN  Action(ZeroOrMore("VerseBlockLine", p, <<>>))

\* VerseBlock <- attributes:(VerseBlockAttribute)* VerseBlockDelimiter WS* NEWLINE
\*     content:(VerseBlockParagraph) ((VerseBlockDelimiter WS* EOL) / EOF)
VerseBlock(p) ==
    LET Action(attributes, content) ==
            IF ~(LineAt(attributes.p) = "verse" /\ NEWLINE(attributes.p)) THEN Fail
            ELSE IF content.s # "ok" THEN content
            ELSE IF CloseDelimiter("verse", content.p) = 0 THEN Fail
            ELSE Ok(CloseDelimiter("verse", content.p),
                    NewDelimitedBlock("verse", <<content.v>>, attributes.v))
        Content(attributes) == Action(attributes, VerseBlockParagraph(attributes.p + 1))
    IN  Content(ZeroOrMore("VerseBlockAttribute", p, <<>>))

\* CommentBlockLine <- content:(!CommentBlockDelimiter !EOL .)* EOL
CommentBlockLine(p) ==
    IF EOF(p) THEN Ok(p, "")
    ELSE IF DelimiterOf(LineAt(p)) = "comment" THEN Fail
    ELSE Ok(p + 1, LineAt(p))

\* CommentBlock <- attributes:(ElementAttribute)* CommentBlockDelimiter WS* NEWLINE
\*     content:(CommentBlockLine)* ((CommentBlockDelimiter WS* EOL) / EOF)
CommentBlock(p) ==
    LET Action(attributes, content) ==
            IF ~(LineAt(attributes.p) = "comment" /\ NEWLINE(attributes.p)) THEN Fail
            ELSE IF content.s # "ok" THEN content
            ELSE IF CloseDelimiter("comment", content.p) = 0 THEN Fail
            ELSE Ok(CloseDelimiter("comment", content.p),
                    NewDelimitedBlock("comment", Verbatim(content.v), attributes.v))
        Content(attributes) ==
            Action(attributes, ZeroOrMore("CommentBlockLine", attributes.p + 1, <<>>))
    IN  Content(ZeroOrMore("ElementAttribute", p, <<>>))

\* DelimitedBlock <- FencedBlock / ListingBlock / ExampleBlock / CommentBlock / VerseBlock
DelimitedBlock(p) ==
    Choice(<<"FencedBlock", "ListingBlock", "ExampleBlock", "CommentBlock",
             "VerseBlock">>, 1, p)

\* a line of the content of a literal block: (!LiteralBlockDelimiter .)*
\* goes on to the next `....`
LiteralBlockLine(p) ==
    IF EOF(p) \/ DelimiterOf(LineAt(p)) = "literal" THEN Fail
    ELSE Ok(p + 1, LineAt(p))

\* ParagraphWithLiteralBlockDelimiter <- LiteralBlockDelimiter WS* NEWLINE
\*     content:(!LiteralBlockDelimiter .)* ((LiteralBlockDelimiter WS* EOL) / EOF)
\* (the two other forms of LiteralBlock need a line that starts with a
\* space or the line `[literal]`)
LiteralBlock(p) ==
    LET Action(content) ==
            IF ~(LineAt(p) = "literal" /\ NEWLINE(p)) THEN Fail
            ELSE IF CloseDelimiter("literal", content.p) = 0 THEN Fail
            ELSE Ok(CloseDelimiter("literal", content.p), NewLiteralBlock(content.v))
    IN  Action(ZeroOrMore("LiteralBlockLine", p + 1, <<>>))

\* DocumentBlock <- !EOF block:(BlankLine / DocumentAttributeDeclaration
\*     / DocumentAttributeReset / TableOfContentsMacro / List / BlockImage
\*     / LiteralBlock / DelimitedBlock / Paragraph)
DocumentBlock(p) ==
    IF EOF(p) THEN Fail
    ELSE Choice(<<"BlankLine", "List", "LiteralBlock", "DelimitedBlock",
                  "Paragraph">>, 1, p)


\* ------------------------------------------------------------------
\* Sections
\* ------------------------------------------------------------------
\* SectionNTitle <- attributes:(ElementAttribute)* SectionNTitlePrefix
\*     content:(TitleElements) WS* id:(InlineElementID)? WS* EOL
SectionTitle(level, p) ==
    LET Action(attributes) ==
            IF LineAt(attributes.p) \in TitleLines
                   /\ LineAt(attributes.p) = TitleLineOfLevel[level]
            THEN Ok(attributes.p + 1, NewSectionTitle(LineAt(attributes.p), attributes.v))
            ELSE Fail
    IN  Action(ZeroOrMore("ElementAttribute", p, <<>>))

\* elements:(SectionNBlock*) of Section0 and Section1: the sequence of
\* the values, as a []interface{}
\* elements:(SectionNBlock?) of Section2 to Section5: the value of the
\* block, or nil when the block does not match; the action then panics
\* on elements.([]interface{})
Section5Block(p) ==
    IF \E l \in 1..5 : SectionTitle(l, p).s = "ok" THEN Fail
    ELSE ZeroOrMore("DocumentBlock", p, <<>>)

Section5(p) ==
    LET Action(title, elements) ==
            IF EOF(p) \/ title.s # "ok" THEN Fail
            ELSE IF Aborted(elements) THEN elements
            ELSE IF elements.s = "fail" THEN Panic
            ELSE Ok(elements.p, NewSection(5, title.v, elements.v))
        Elements(title) == Action(title, Section5Block(title.p))
    IN  Elements(SectionTitle(5, p))

Section4Content(p) == Choice(<<"Section5", "DocumentBlock">>, 1, p)

Section4Block(p) ==
    IF \E l \in 1..4 : SectionTitle(l, p).s = "ok" THEN Fail
    ELSE ZeroOrMore("Section4Content", p, <<>>)

Section4(p) ==
    LET Action(title, elements) ==
            IF EOF(p) \/ title.s # "ok" THEN Fail
            ELSE IF Aborted(elements) THEN elements
            ELSE IF elements.s = "fail" THEN Panic
            ELSE Ok(elements.p, NewSection(4, title.v, elements.v))
        Elements(title) == Action(title, Section4Block(title.p))
    IN  Elements(SectionTitle(4, p))

Section3Content(p) == Choice(<<"Section4", "Section5", "DocumentBlock">>, 1, p)

Section3Block(p) ==
    IF \E l \in 1..3 : SectionTitle(l, p).s = "ok" THEN Fail
    ELSE ZeroOrMore("Section3Content", p, <<>>)

Section3(p) ==
    LET Action(title, elements) ==
            IF EOF(p) \/ title.s # "ok" THEN Fail
            ELSE IF Aborted(elements) THEN elements
            ELSE IF elements.s = "fail" THEN Panic
            ELSE Ok(elements.p, NewSection(3, title.v, elements.v))
        Elements(title) == Action(title, Section3Block(title.p))
    IN  Elements(SectionTitle(3, p))

Section2Content(p) ==
    Choice(<<"Section3", "Section4", "Section5", "DocumentBlock">>, 1, p)

Section2Block(p) ==
    IF \E l \in 1..2 : SectionTitle(l, p).s = "ok" THEN Fail
    ELSE ZeroOrMore("Section2Content", p, <<>>)

Section2(p) ==
    LET Action(title, elements) ==
            IF EOF(p) \/ title.s # "ok" THEN Fail
            ELSE IF Aborted(elements) THEN elements
            ELSE IF elements.s = "fail" THEN Panic
            ELSE Ok(elements.p, NewSection(2, title.v, elements.v))
        Elements(title) == Action(title, Section2Block(title.p))
    IN  Elements(SectionTitle(2, p))

\* Section1Block without the predicate !Section1Title and with Section1
\* among the alternatives of its content
Section1BlockAdmittingSection1(p) ==
    Choice(<<"Section1", "Section2", "Section3", "Section4", "Section5",
             "DocumentBlock">>, 1, p)

\* Section1Block <- !Section1Title
\*     content:(Section2 / Section3 / Section4 / Section5 / DocumentBlock)
Section1Block(p) ==
    IF SectionTitle(1, p).s = "ok" THEN Fail
    ELSE Choice(<<"Section2", "Section3", "Section4", "Section5",
                  "DocumentBlock">>, 1, p)

Section1(p) ==
    LET Action(title, elements) ==
            IF EOF(p) \/ title.s # "ok" THEN Fail
            ELSE IF elements.s # "ok" THEN elements
            ELSE Ok(elements.p, NewSection(1, title.v, elements.v))
        Elements(title) == Action(title, ZeroOrMore("Section1Block", title.p, <<>>))
    IN  Elements(SectionTitle(1, p))

RECURSIVE Section0(_)

\* Section0Block <- !Section0
\*     content:(Section1 / Section2 / Section3 / Section4 / Section5 / DocumentBlock)
Section0Block(p) ==
    LET Content(ahead) ==
            IF Aborted(ahead) THEN ahead
            ELSE IF ahead.s = "ok" THEN Fail
            ELSE Choice(<<"Section1", "Section2", "Section3", "Section4", "Section5",
                          "DocumentBlock">>, 1, p)
    IN  Content(Section0(p))

Section0(p) ==
    LET Action(title, elements) ==
            IF EOF(p) \/ title.s # "ok" THEN Fail
            ELSE IF elements.s # "ok" THEN elements
            ELSE Ok(elements.p, NewSection(0, title.v, elements.v))
        Elements(title) == Action(title, ZeroOrMore("Section0Block", title.p, <<>>))
    IN  Elements(SectionTitle(0, p))

\* Section <- !EOF section:(Section0 / Section1 / Section2 / Section3 / Section4 / Section5)
Section(p) ==
    IF EOF(p) THEN Fail
    ELSE Choice(<<"Section0", "Section1", "Section2", "Section3", "Section4",
                  "Section5">>, 1, p)

\* one iteration of blocks:(Section / DocumentBlock)*
DocumentElement(p) == Choice(<<"Section", "DocumentBlock">>, 1, p)

Apply(rule, p) ==
    CASE rule = "BlankLine" -> BlankLine(p)
      [] rule = "ElementAttribute" -> ElementAttributeLine(p)
      [] rule = "ParagraphAttribute" -> ParagraphAttribute(p)
      [] rule = "VerseBlockAttribute" -> VerseBlockAttribute(p)
      [] rule = "InlineElements" -> InlineElements(p)
      [] rule = "Paragraph" -> Paragraph(p)
      [] rule = "ListParagraphLine" -> ListParagraphLine(p)
      [] rule = "OrderedListItem" -> OrderedListItem(p)
      [] rule = "UnorderedListItem" -> UnorderedListItem(p)
      [] rule = "LabeledListItem" -> LabeledListItem(p)
      [] rule = "ListItem" -> ListItem(p)
      [] rule = "List" -> List(p)
      [] rule = "BlockParagraphLine" -> BlockParagraphLine(p)
      [] rule = "BlockParagraph" -> BlockParagraph(p)
      [] rule = "BlockContent" -> BlockContent(p)
      [] rule = "FencedBlock" -> FencedBlock(p)
      [] rule = "ListingBlock" -> ListingBlock(p)
      [] rule = "ExampleBlock" -> ExampleBlock(p)
      [] rule = "VerseBlockLine" -> VerseBlockLine(p)
      [] rule = "VerseBlock" -> VerseBlock(p)
      [] rule = "CommentBlockLine" -> CommentBlockLine(p)
      [] rule = "CommentBlock" -> CommentBlock(p)
      [] rule = "DelimitedBlock" -> DelimitedBlock(p)
      [] rule = "LiteralBlockLine" -> LiteralBlockLine(p)
      [] rule = "LiteralBlock" -> LiteralBlock(p)
      [] rule = "DocumentBlock" -> DocumentBlock(p)
      [] rule = "Section5" -> Section5(p)
      [] rule = "Section4Content" -> Section4Content(p)
      [] rule = "Section4" -> Section4(p)
      [] rule = "Section3Content" -> Section3Content(p)
      [] rule = "Section3" -> Section3(p)
      [] rule = "Section2Content" -> Section2Content(p)
      [] rule = "Section2" -> Section2(p)
      [] rule = "Section1Block" -> Section1Block(p)
      [] rule = "Section1" -> Section1(p)
      [] rule = "Section0Block" -> Section0Block(p)
      [] rule = "Section0" -> Section0(p)
      [] rule = "Section" -> Section(p)
      [] rule = "DocumentElement" -> DocumentElement(p)


\* ------------------------------------------------------------------
\* Document header
\* ------------------------------------------------------------------
NoHeader == [present |-> FALSE, doctitle |-> "", authors |-> "", revision |-> "",
             toc |-> "unset"]

\* DocumentAuthorsInlineForm <- WS* !":" authors:(DocumentAuthor+) EOL
\* every line that is not empty is a run of words, which are name parts
DocumentAuthors(p) == IF ~EOF(p) /\ LineAt(p) # "blank" THEN p + 1 ELSE p

\* DocumentRevision <- WS* !":" revnumber:(DocumentRevisionNumber)? ","?
\*     revdate:(DocumentRevisionDate)? ":"? revremark:(DocumentRevisionRemark)? EOL
\* every part is optional: any line matches, and so does the end of input
DocumentRevision(p) == IF EOF(p) THEN p ELSE p + 1

\* DocumentHeader <- header:(Section0Title) authors:(DocumentAuthors?)
\*     revision:(DocumentRevision?) otherAttributes:(DocumentAttributeDeclaration*)
DocumentHeader(p) ==
    LET Action(title, authors, revision) ==
            IF title.s # "ok" THEN Fail
            ELSE Ok(revision,
                    [present |-> TRUE, doctitle |-> title.v.content,
                     authors |-> IF authors > title.p THEN LineAt(title.p) ELSE "",
                     revision |-> IF revision > authors THEN LineAt(authors) ELSE "",
                     toc |-> "unset"])
        Revision(title, authors) == Action(title, authors, DocumentRevision(authors))
        Authors(title) == Revision(title, DocumentAuthors(title.p))
    IN  Authors(SectionTitle(0, p))

\* ------------------------------------------------------------------
\* Document (types.NewDocument, insertPreamble)
\* ------------------------------------------------------------------
\* the blocks that are not a Section, in order
NonSections(bs) ==
    SelectSeq(bs, LAMBDA b : ~IsSection(b))

\* insertPreamble: the loop appends every block that is not a Section
\* to the preamble (`break` leaves the switch, not the loop)
insertPreamble(bs) ==
    LET preamble == NonSections(bs)
    IN  IF Len(preamble) = 0 \/ Len(preamble) = Len(bs) THEN bs
        ELSE <<NewPreamble(preamble)>> \o SubSeq(bs, Len(preamble) + 1, Len(bs))

\* the 0-based index of the first Preamble of the elements, 0 if none
PreambleIndex(elements) ==
    IF \E i \in 1..Len(elements) : elements[i].type = "Preamble"
    THEN (CHOOSE i \in 1..Len(elements) :
              /\ elements[i].type = "Preamble"
              /\ \A j \in 1..(i - 1) : elements[j].type # "Preamble") - 1
    ELSE 0

\* the elements after the `toc` attribute of the header is applied:
\* [s, elements]; make([]interface{}, n) panics when n is negative
InsertTableOfContents(toc, elements) ==
    CASE toc \in {"", "auto"} ->
             [s |-> "ok", elements |-> <<TableOfContentsMacro>> \o elements]
      [] toc = "preamble" ->
             LET preambleIndex == PreambleIndex(elements)
             IN  IF Len(elements) - (preambleIndex + 1) < 0
                 THEN [s |-> "panic", elements |-> elements]
                 ELSE [s |-> "ok",
                       elements |-> SubSeq(elements, 1, preambleIndex + 1)
                                    \o <<TableOfContentsMacro>>
                                    \o SubSeq(elements, preambleIndex + 2, Len(elements))]
      [] OTHER -> [s |-> "ok", elements |-> elements]

\* the elements that implement Visitable: of the block types, Section
Visitable(e) == e.type = "Section"

RECURSIVE Accept(_, _)
RECURSIVE AcceptAll(_, _, _)
\* the ElementReferencesCollector visits a section: the title is
\* recorded under its elementID, unless the id is already recorded
Visit(refs, section) ==
    LET id == section.title.attrs["elementID"]
    IN  IF id \in DOMAIN refs THEN refs ELSE (id :> section.title) @@ refs

\* Section.Accept: the section, then its Visitable elements
Accept(refs, section) == AcceptAll(Visit(refs, section), section.elements, 1)

AcceptAll(refs, elements, i) ==
    IF i > Len(elements) THEN refs
    ELSE AcceptAll(IF Visitable(elements[i]) THEN Accept(refs, elements[i]) ELSE refs,
                   elements, i + 1)

\* NewDocument(frontmatter, header, blocks): [s, doc]
NewDocument(hdr, bs) ==
    LET Document(toc) ==
            [s |-> toc.s,
             doc |-> [attributes |-> IF hdr.present /\ hdr.toc # "unset"
                                     THEN [toc |-> hdr.toc] ELSE EmptyMap,
                      elements |-> toc.elements,
                      refs |-> AcceptAll(EmptyMap, toc.elements, 1)]]
        Elements(elements) ==
            Document(IF hdr.present /\ hdr.toc # "unset"
                     THEN InsertTableOfContents(hdr.toc, elements)
                     ELSE [s |-> "ok", elements |-> elements])
    IN  Elements(insertPreamble(bs))


\* ------------------------------------------------------------------
\* The parser as a state machine.
\*   pc = "header"  before documentHeader:(DocumentHeader?)
\*   pc = "blocks"  inside blocks:(Section / DocumentBlock)*
\*   pc = "done"    the parser has returned: result.s is "ok" (a
\*                  Document, result.doc) or "error"
\*   pc = "loop"    the parser iterates without end and never returns
\* ------------------------------------------------------------------
NoDocument == [attributes |-> EmptyMap, elements |-> <<>>, refs |-> EmptyMap]

NoResult == [s |-> "none", doc |-> NoDocument]

\* the inputs over the line classes S of at most n lines: an empty last
\* line is a line only when a NEWLINE ends it
Inputs(S, n) ==
    {in \in SeqsUpTo(S, n) \X BOOLEAN :
        /\ (in[1] = <<>> => ~in[2])
        /\ (in[1] # <<>> /\ in[1][Len(in[1])] = "blank" => in[2])}

InitOn(S, n) ==
    /\ \E in \in Inputs(S, n) : input = in[1] /\ nl = in[2]
    /\ pc = "header"
    /\ pos = 1
    /\ header = NoHeader
    /\ blocks = <<>>
    /\ listItems = <<>>
    /\ result = NoResult

Init == InitOn(LineClasses, MaxLen)

\* documentHeader:(DocumentHeader?)
ParseHeader ==
    /\ pc = "header"
    /\ LET Matched(r) == IF r.s = "ok" THEN header' = r.v /\ pos' = r.p
                         ELSE UNCHANGED <<header, pos>>
       IN  Matched(DocumentHeader(pos))
    /\ pc' = "blocks"
    /\ UNCHANGED <<input, nl, blocks, listItems, result>>

\* one iteration of blocks:(Section / DocumentBlock)* that matches
ParseBlock ==
    /\ pc = "blocks"
    /\ LET Matched(r) == /\ r.s = "ok"
                         /\ blocks' = Append(blocks, r.v)
                         /\ pos' = r.p
       IN  Matched(DocumentElement(pos))
    /\ UNCHANGED <<input, nl, pc, header, listItems, result>>

\* the action code of a rule panics: the parser recovers the panic and
\* returns an error
ParsePanic ==
    /\ pc = "blocks"
    /\ DocumentElement(pos).s = "panic"
    /\ pc' = "done"
    /\ result' = [s |-> "error", doc |-> NoDocument]
    /\ UNCHANGED <<input, nl, pos, header, blocks, listItems>>

\* a repetition goes on matching without consuming input
ParseDiverge ==
    /\ pc = "blocks"
    /\ DocumentElement(pos).s = "loop"
    /\ pc' = "loop"
    /\ UNCHANGED <<input, nl, pos, header, blocks, listItems, result>>

\* the repetition of blocks ends; then EOF { return types.NewDocument(...) },
\* or the parser returns the error "no match found"
ParseEnd ==
    /\ pc = "blocks"
    /\ DocumentElement(pos).s = "fail"
    /\ pc' = "done"
    /\ result' = LET Ended(d) == IF d.s = "ok" THEN [s |-> "ok", doc |-> d.doc]
                                  ELSE [s |-> "error", doc |-> NoDocument]
                 IN  IF EOF(pos) THEN Ended(NewDocument(header, blocks))
                     ELSE [s |-> "error", doc |-> NoDocument]
    /\ UNCHANGED <<input, nl, pos, header, blocks, listItems>>

Next == ParseHeader \/ ParseBlock \/ ParsePanic \/ ParseDiverge \/ ParseEnd

Spec == Init /\ [][Next]_vars


\* ------------------------------------------------------------------
\* The parser on documents made of titles, attribute lines, paragraphs
\* and blank lines
\* ------------------------------------------------------------------
SectionLines == {"text", "blank", "idattr"} \cup TitleLines

InitSections == InitOn(SectionLines, MaxSecLen)

NextSections == ParseHeader \/ ParseBlock \/ ParsePanic \/ ParseEnd

SpecSections == InitSections /\ [][NextSections]_vars

\* ------------------------------------------------------------------
\* types.NewDocument on any header and any list of blocks
\* ------------------------------------------------------------------
\* the values of the `toc` attribute: "unset" stands for a header
\* without the attribute
TocValues == {"unset", "", "auto", "preamble", "macro", "left"}

SampleParagraph == NewParagraph(<<"text">>, <<>>)

SampleParagraphWithID == NewParagraph(<<"text">>, <<AttributeOf("idattr")>>)

SampleSection == NewSection(1, NewSectionTitle("title1", <<>>), <<>>)

SampleSectionWithID ==
    NewSection(1, NewSectionTitle("title1", <<AttributeOf("idattr")>>),
               <<SampleParagraph>>)

SampleBlocks ==
    {NewBlankLine, SampleParagraph, SampleParagraphWithID, SampleSection,
     SampleSectionWithID}

InitDoc ==
    /\ input = <<>>
    /\ nl = FALSE
    /\ pc = "document"
    /\ pos = 1
    /\ \E toc \in TocValues :
           header = [present |-> TRUE, doctitle |-> "title0", authors |-> "",
                     revision |-> "", toc |-> toc]
    /\ blocks \in SeqsUpTo(SampleBlocks, MaxBlocks)
    /\ listItems = <<>>
    /\ result = NoResult

\* types.NewDocument(frontMatter, documentHeader, blocks)
BuildDocument ==
    /\ pc = "document"
    /\ pc' = "done"
    /\ result' = LET Built(d) == IF d.s = "ok" THEN [s |-> "ok", doc |-> d.doc]
                                  ELSE [s |-> "panic", doc |-> NoDocument]
                 IN  Built(NewDocument(header, blocks))
    /\ UNCHANGED <<input, nl, pos, header, blocks, listItems>>

NextDoc == BuildDocument

SpecDoc == InitDoc /\ [][NextDoc]_vars

\* ------------------------------------------------------------------
\* types.NewList on any flat sequence of list items
\* ------------------------------------------------------------------
\* the items the prefixes `.`, `..`, `...`, `a.`, `*`, `**`, `***`, `-`
\* and a labeled item `term::` give, and the item of `[upperroman, start=5]`
\* above `..`
SampleItems ==
    {NewListItem("O", 1, "arabic", <<SampleParagraph>>, <<>>),
     NewListItem("O", 2, "loweralpha", <<SampleParagraph>>, <<>>),
     NewListItem("O", 2, "loweralpha", <<SampleParagraph>>,
                 <<[upperroman |-> NULL, start |-> 5]>>),
     NewListItem("O", 3, "lowerroman", <<SampleParagraph>>, <<>>),
     NewListItem("O", 1, "loweralpha", <<SampleParagraph>>, <<>>),
     NewListItem("U", 1, "1asterisk", <<SampleParagraph>>, <<>>),
     NewListItem("U", 2, "2asterisks", <<SampleParagraph>>, <<>>),
     NewListItem("U", 3, "3asterisks", <<SampleParagraph>>, <<>>),
     NewListItem("U", 1, "dash", <<SampleParagraph>>, <<>>),
     NewListItem("L", 0, "none", <<SampleParagraph>>, <<>>)}

NoList == [type |-> "none", attrs |-> EmptyMap, items |-> <<>>]

InitList ==
    /\ input = <<>>
    /\ nl = FALSE
    /\ pc = "list"
    /\ pos = 1
    /\ header = NoHeader
    /\ blocks = <<>>
    /\ listItems \in SeqsUpTo(SampleItems, MaxItems) \ {<<>>}
    /\ result = [s |-> "none", list |-> NoList]

\* types.NewList(elements, attributes)
BuildList ==
    /\ pc = "list"
    /\ pc' = "done"
    /\ result' = LET Built(l) == IF l.s = "ok" THEN [s |-> "ok", list |-> l.list]
                                  ELSE [s |-> l.s, list |-> NoList]
                 IN  Built(NewList(listItems, <<>>))
    /\ UNCHANGED <<input, nl, pos, header, blocks, listItems>>

NextList == BuildList

SpecList == InitList /\ [][NextList]_vars


\* ------------------------------------------------------------------
\* The parser on attribute lines above a paragraph
\* ------------------------------------------------------------------
\* [k=v], [k=w], [j=x], [[thetitle]], [#id], [link=u], [link= u  ]
WellFormedAttributeLines ==
    {"attrKV", "attrKW", "attrJX", "idattr", "idshort", "linkattr", "linkattrWS"}

\* [ link=u], [ #id ], and without the closing bracket: [link=u, [#id
MalformedAttributeLines == {"linkattrSP", "idshortSP", "linkattrOpen", "idshortOpen"}

\* the text lines `a b` and `c]`
TextLines == {"text", "textBracket"}

InitAttrs ==
    /\ \E attrs \in SeqsUpTo(WellFormedAttributeLines \cup MalformedAttributeLines,
                              MaxAttrLines) :
           \E line \in TextLines : input = Append(attrs, line)
    /\ nl \in BOOLEAN
    /\ pc = "header"
    /\ pos = 1
    /\ header = NoHeader
    /\ blocks = <<>>
    /\ listItems = <<>>
    /\ result = NoResult

NextAttrs == ParseHeader \/ ParseBlock \/ ParseEnd

SpecAttrs == InitAttrs /\ [][NextAttrs]_vars

\* ------------------------------------------------------------------
\* The parser on masquerade attribute lines above a block
\* ------------------------------------------------------------------
\* [verse, j d, v t], [verse, j d], [verse]
VerseAttributeLines == {"verseattr", "verseattrAuthor", "verseattrPlain"}

\* [TIP], [NOTE], [IMPORTANT], [WARNING], [CAUTION]
AdmonitionAttributeLines ==
    {"tipattr", "noteattr", "importantattr", "warningattr", "cautionattr"}

\* a closed block of each delimiter around the line `a b`, and a paragraph
SampleBodies ==
    {<<d, "text", d>> : d \in {"fenced", "listing", "example", "comment", "verse"}}
        \cup {<<"text">>}

InitMasquerade ==
    /\ \E attrs \in SeqsUpTo(VerseAttributeLines \cup AdmonitionAttributeLines
                                  \cup {"attrKV"}, MaxAttrLines) :
           \E body \in SampleBodies : input = attrs \o body
    /\ nl \in BOOLEAN
    /\ pc = "header"
    /\ pos = 1
    /\ header = NoHeader
    /\ blocks = <<>>
    /\ listItems = <<>>
    /\ result = NoResult

NextMasquerade == ParseHeader \/ ParseBlock \/ ParseEnd

SpecMasquerade == InitMasquerade /\ [][NextMasquerade]_vars

\* ------------------------------------------------------------------
\* The QuotedText rule on escaped and plain quoted texts
\* ------------------------------------------------------------------
\* count backslashes
BackslashRun(count) == [k \in 1..count |-> "\\"]

\* the contents `x` and `x y`
SampleContents == {<<"x">>, <<"x", " ", "y">>}

\* backslashes, an opening punctuation, a content, a closing punctuation
InitQuoted ==
    /\ \E count \in 0..MaxBackslashes, c \in QuotePunctuation,
          content \in SampleContents :
           \E open \in {<<c>>, <<c, c>>}, close \in {<<c>>, <<c, c>>} :
               input = BackslashRun(count) \o open \o content \o close
    /\ nl = FALSE
    /\ pc = "quoted"
    /\ pos = 1
    /\ header = NoHeader
    /\ blocks = <<>>
    /\ listItems = <<>>
    /\ result = [s |-> "none", v |-> <<>>, rest |-> 1]

\* the QuotedText rule at the start of the text
ParseQuotedText ==
    /\ pc = "quoted"
    /\ pc' = "done"
    /\ result' = LET Parsed(r) == IF r.i = 0 THEN [s |-> "fail", v |-> <<>>, rest |-> 1]
                                  ELSE [s |-> "ok", v |-> r.v, rest |-> r.i]
                 IN  Parsed(QuotedText(input, 1))
    /\ UNCHANGED <<input, nl, pos, header, blocks, listItems>>

NextQuoted == ParseQuotedText

SpecQuoted == InitQuoted /\ [][NextQuoted]_vars

\* ------------------------------------------------------------------
\* The parser on runs of blank lines
\* ------------------------------------------------------------------
\* a run of n blank lines
BlankRun(n) == [k \in 1..n |-> "blank"]

\* the delimiters of the blocks whose content holds blank lines
ContentDelimiters == {"fenced", "listing", "example"}

\* a paragraph, and a closed block of each content delimiter
SeparatedBlocks == {<<"text">>} \cup {<<d, "text", d>> : d \in ContentDelimiters}

\* a run of blank lines between two blocks, or between two paragraphs
\* inside a block
InitBlank ==
    /\ \E n \in 1..MaxBlankRun :
           \/ \E a \in SeparatedBlocks, b \in SeparatedBlocks :
                  input = a \o BlankRun(n) \o b
           \/ \E d \in ContentDelimiters :
                  input = <<d, "text">> \o BlankRun(n) \o <<"text", d>>
    /\ nl \in BOOLEAN
    /\ pc = "header"
    /\ pos = 1
    /\ header = NoHeader
    /\ blocks = <<>>
    /\ listItems = <<>>
    /\ result = NoResult

NextBlank == ParseHeader \/ ParseBlock \/ ParseEnd

SpecBlank == InitBlank /\ [][NextBlank]_vars

\* ------------------------------------------------------------------
\* The parser on the lines that follow a paragraph line
\* ------------------------------------------------------------------
\* a text line, a blank line, the titles `== t1`, `=== t2`, `==== t3`,
\* a fence, and a line that starts with the listing delimiter
FollowingLines == {"text", "blank", "title1", "title2", "title3", "fenced", "listingX"}

InitParagraph ==
    /\ \E rest \in SeqsUpTo(FollowingLines, MaxParLen) : input = <<"text">> \o rest
    /\ nl \in BOOLEAN
    /\ pc = "header"
    /\ pos = 1
    /\ header = NoHeader
    /\ blocks = <<>>
    /\ listItems = <<>>
    /\ result = NoResult

NextParagraph == ParseHeader \/ ParseBlock \/ ParsePanic \/ ParseEnd

SpecParagraph == InitParagraph /\ [][NextParagraph]_vars

\* ------------------------------------------------------------------
\* Image macros (types.NewImageMacro)
\* ------------------------------------------------------------------
\* the index of the last character of the set in the text, 0 if none
LastIndexOf(cs, set) ==
    IF \E k \in DOMAIN cs : cs[k] \in set
    THEN CHOOSE k \in DOMAIN cs :
             cs[k] \in set /\ \A j \in (k + 1)..Len(cs) : cs[j] \notin set
    ELSE 0

\* _, filename := filepath.Split(path) : what follows the last separator
FileName(path) == SubSeq(path, LastIndexOf(path, {"/"}) + 1, Len(path))

\* filepath.Ext(filename): the suffix that starts at the last dot, empty
\* if there is no dot
Ext(filename) ==
    IF LastIndexOf(filename, {"."}) = 0 THEN <<>>
    ELSE SubSeq(filename, LastIndexOf(filename, {"."}), Len(filename))

RECURSIVE StringsTrimRight(_, _)
\* strings.TrimRight(s, cutset): s without its trailing characters that
\* occur in cutset
StringsTrimRight(cs, cutset) ==
    IF cs # <<>> /\ \E k \in DOMAIN cutset : cutset[k] = cs[Len(cs)]
    THEN StringsTrimRight(SubSeq(cs, 1, Len(cs) - 1), cutset)
    ELSE cs

\* types.NewImageMacro(path, attributes): an empty `alt` is set from the
\* file name, strings.TrimRight(filename, fmt.Sprintf(".%s", ext)) if
\* the file name has an extension, the file name otherwise
NewImageMacro(path, attributes) ==
    [path |-> path,
     attributes |->
         IF attributes.alt = <<>>
         THEN [attributes EXCEPT !.alt =
                  IF Ext(FileName(path)) # <<>>
                  THEN StringsTrimRight(FileName(path), <<".">> \o Ext(FileName(path)))
                  ELSE FileName(path)]
         ELSE attributes]

\* the directories, the characters of the stems, the extensions and the
\* `alt` attributes of the sample macros: none and `d/`; a, g and the
\* dot; none, `.g` and `.pg`; none and `t`
SampleDirs == {<<>>, <<"d", "/">>}

StemChars == {"a", "g", "."}

SampleExts == {<<>>, <<".", "g">>, <<".", "p", "g">>}

SampleAlts == {<<>>, <<"t">>}

InitImage ==
    /\ \E dir \in SampleDirs, stem \in SeqsUpTo(StemChars, MaxStemLen) \ {<<>>},
          ext \in SampleExts, alt \in SampleAlts :
           input = [path |-> dir \o stem \o ext, attributes |-> [alt |-> alt]]
    /\ nl = FALSE
    /\ pc = "image"
    /\ pos = 1
    /\ header = NoHeader
    /\ blocks = <<>>
    /\ listItems = <<>>
    /\ result = [s |-> "none", macro |-> [path |-> <<>>, attributes |-> [alt |-> <<>>]]]

\* BlockImageMacro, InlineImageMacro: { return types.NewImageMacro(path, attributes) }
BuildImageMacro ==
    /\ pc = "image"
    /\ pc' = "done"
    /\ result' = [s |-> "ok", macro |-> NewImageMacro(input.path, input.attributes)]
    /\ UNCHANGED <<input, nl, pos, header, blocks, listItems>>

NextImage == BuildImageMacro

SpecImage == InitImage /\ [][NextImage]_vars

\* ------------------------------------------------------------------
\* NewOrderedList and NewUnorderedList, one item of the loop at a time,
\* on the ordered and the unordered items of the same prefixes
\* ------------------------------------------------------------------
\* the content of the item at each place of the sequence
ItemLabels == <<"i1", "i2", "i3", "i4", "i5", "i6", "i7", "i8">>

ItemContent(i) == <<NewParagraph(<<ItemLabels[i]>>, <<>>)>>

\* the ordered prefixes `.`, `..`, `...`, `A.` and `..` under the line
\* `[upperroman, start=5]`, as (level, numbering style, attributes)
OrderedPrefixes ==
    <<[level |-> 1, style |-> "arabic", attributes |-> <<>>],
      [level |-> 2, style |-> "loweralpha", attributes |-> <<>>],
      [level |-> 3, style |-> "lowerroman", attributes |-> <<>>],
      [level |-> 1, style |-> "upperalpha", attributes |-> <<>>],
      [level |-> 2, style |-> "loweralpha",
       attributes |-> <<[upperroman |-> NULL, start |-> 5]>>]>>

\* the unordered prefixes `*`, `**`, `***`, `-` and `**`, as (level,
\* bullet style)
UnorderedPrefixes ==
    <<[level |-> 1, style |-> "1asterisk"],
      [level |-> 2, style |-> "2asterisks"],
      [level |-> 3, style |-> "3asterisks"],
      [level |-> 1, style |-> "dash"],
      [level |-> 2, style |-> "2asterisks"]>>

\* the ordered items and the unordered items of a sequence of prefixes
OrderedItems(prefixes) ==
    [i \in 1..Len(prefixes) |->
        NewListItem("O", OrderedPrefixes[prefixes[i]].level,
                    OrderedPrefixes[prefixes[i]].style, ItemContent(i),
                    OrderedPrefixes[prefixes[i]].attributes)]

UnorderedItems(prefixes) ==
    [i \in 1..Len(prefixes) |->
        NewListItem("U", UnorderedPrefixes[prefixes[i]].level,
                    UnorderedPrefixes[prefixes[i]].style, ItemContent(i), <<>>)]

NoAssembly == [s |-> "none", heap |-> <<>>, list |-> NoList]

\* listItems is the sequence of prefixes; result.o and result.u are the
\* variables of the two loops, result.olist and result.ulist what the
\* two functions return
InitAssembly ==
    /\ input = <<>>
    /\ nl = FALSE
    /\ pc = "items"
    /\ pos = 1
    /\ header = NoHeader
    /\ blocks = <<>>
    /\ listItems \in SeqsUpTo(DOMAIN OrderedPrefixes, MaxPrefixes) \ {<<>>}
    /\ result = [o |-> OrderedListStart(Pointers(OrderedItems(listItems))),
                 u |-> UnorderedListStart(Pointers(UnorderedItems(listItems))),
                 olist |-> NoAssembly, ulist |-> NoAssembly]

\* one iteration of `for _, element := range elements` in each function
AssembleItem ==
    /\ pc = "items"
    /\ pos <= Len(listItems)
    /\ pos' = pos + 1
    /\ result' = [result EXCEPT
                      !.o = IF @.s = "ok" THEN OrderedListStep(@, pos) ELSE @,
                      !.u = IF @.s = "ok" THEN UnorderedListStep(@, pos) ELSE @]
    /\ UNCHANGED <<input, nl, pc, header, blocks, listItems>>

\* the rest of the buffer and the return of each function
AssembleRest ==
    /\ pc = "items"
    /\ pos > Len(listItems)
    /\ pc' = "done"
    /\ result' = [result EXCEPT !.olist = OrderedListEnd(result.o, <<>>),
                                !.ulist = UnorderedListEnd(result.u, <<>>)]
    /\ UNCHANGED <<input, nl, pos, header, blocks, listItems>>

NextAssembly == AssembleItem \/ AssembleRest

SpecAssembly == InitAssembly /\ [][NextAssembly]_vars

\* ------------------------------------------------------------------
\* Walks of the AST
\* ------------------------------------------------------------------
RECURSIVE Sections(_)
\* the Sections found at any depth in the elements
Sections(elements) ==
    UNION {IF elements[i].type = "Section"
           THEN {elements[i]} \cup Sections(elements[i].elements)
           ELSE {} : i \in 1..Len(elements)}

RECURSIVE CountLevel0(_)
\* the number of Sections of level 0 among the elements
CountLevel0(elements) ==
    IF elements = <<>> THEN 0
    ELSE (IF elements[1].type = "Section" /\ elements[1].level = 0 THEN 1 ELSE 0)
         + CountLevel0(Tail(elements))

RECURSIVE ElementIDs(_)
\* the elementID attributes of the sections, preambles, paragraphs and
\* delimited blocks found at any depth in the elements
ElementIDs(elements) ==
    UNION {LET e == elements[i]
           IN  CASE e.type = "Section" ->
                        {e.title.attrs["elementID"]} \cup ElementIDs(e.elements)
                 [] e.type = "Preamble" -> ElementIDs(e.elements)
                 [] e.type \in {"Paragraph", "DelimitedBlock"} ->
                        IF "elementID" \in DOMAIN e.attrs
                        THEN {e.attrs["elementID"]} ELSE {}
                 [] OTHER -> {}
           : i \in 1..Len(elements)}

\* the number of TableOfContentsMacro among the elements
CountTOC(elements) ==
    Cardinality({i \in 1..Len(elements) : elements[i] = TableOfContentsMacro})

\* ------------------------------------------------------------------
\* Claims
\* ------------------------------------------------------------------
Returned == pc = "done"

ReturnedDocument == pc = "done" /\ result.s = "ok"

\* C1: parsing with the Document entry point never returns an error
\* because of markup: whenever the parser returns, on any sequence of
\* lines of any class, it returns a Document.
C1_NeverFails == Returned => result.s = "ok"

\* C2: parsing terminates on every input: no repetition of the grammar
\* goes on iterating without advancing the cursor, in particular
\* (VerseBlockLine)* and (CommentBlockLine)* at the end of input.
C2_Terminates == pc # "loop"

\* the input is a block of one of the five delimited kinds, opened by
\* its delimiter line, holding paragraph lines, and never closed
UnclosedBlock ==
    /\ Len(input) >= 1
    /\ input[1] \in {"fenced", "listing", "example", "comment", "verse"}
    /\ \A i \in 2..Len(input) : input[i] = "text"
    /\ Len(input) = 1 => nl

\* C3: a block of each delimited kind (Fenced, Listing, Example,
\* Comment, Verse) that is opened and never closed before the end of
\* input is returned as the one DelimitedBlock of that kind.
C3_UnclosedBlocks ==
    UnclosedBlock =>
        /\ pc # "loop"
        /\ Returned =>
               /\ result.s = "ok"
               /\ Len(result.doc.elements) = 1
               /\ result.doc.elements[1].type = "DelimitedBlock"
               /\ result.doc.elements[1].attrs["kind"] = input[1]

\* the index of the first Section of the blocks, 0 if there is none
FirstSection(bs) ==
    IF \E i \in 1..Len(bs) : IsSection(bs[i])
    THEN CHOOSE i \in 1..Len(bs) :
             IsSection(bs[i]) /\ \A j \in 1..(i - 1) : ~IsSection(bs[j])
    ELSE 0

\* the elements the blocks give when the blocks before the first
\* Section, if there are some, are wrapped into a Preamble
LeadingPreamble(bs) ==
    IF FirstSection(bs) > 1
    THEN <<NewPreamble(SubSeq(bs, 1, FirstSection(bs) - 1))>>
         \o SubSeq(bs, FirstSection(bs), Len(bs))
    ELSE bs

C5_TableOfContents ==
    pc = "done" /\ header.toc # "unset" =>
        LET pre == insertPreamble(blocks)
            elements == result.doc.elements
        IN  /\ result.s = "ok"
            /\ header.toc \in {"", "auto"} => elements = <<TableOfContentsMacro>> \o pre
            /\ header.toc = "preamble" =>
                   /\ CountTOC(elements) = 1
                   /\ \E i \in 1..(Len(elements) - 1) :
                          /\ elements[i].type = "Preamble"
                          /\ elements[i + 1] = TableOfContentsMacro
                   /\ SelectSeq(elements, LAMBDA e : e # TableOfContentsMacro) = pre
            /\ header.toc \notin {"", "auto", "preamble"} => elements = pre

\* C6: in every Document every elementID found in the attributes of a
\* node of the tree is a key of ElementReferences, and the key
\* `thetitle` of a section with that explicit id gives a section title
\* with that id.
C6_ElementReferences ==
    ReturnedDocument /\ pc = "done" =>
        /\ ElementIDs(result.doc.elements) \subseteq DOMAIN result.doc.refs
        /\ \A id \in DOMAIN result.doc.refs :
               result.doc.refs[id].attrs["elementID"] = id

\* C7: in every parsed Document, every Section nested at any depth in
\* the elements of a Section of level L has a level strictly greater
\* than L.
C7_NestedLevels ==
    ReturnedDocument =>
        \A section \in Sections(result.doc.elements) :
            \A nested \in Sections(section.elements) : nested.level > section.level

\* C7, its case: a Document with a Section nested in a Section
C7_Witness ==
    /\ ReturnedDocument
    /\ \E section \in Sections(result.doc.elements) :
           \E nested \in Sections(section.elements) :
               Sections(nested.elements) # {}

\* C8: every Section of a parsed Document has a level in 0..5, and there
\* is at most one level-0 title, the document title: no Section of
\* level 0 stands besides it.
C8_Level0Once ==
    ReturnedDocument =>
        /\ \A section \in Sections(result.doc.elements) : section.level \in 0..5
        /\ CountLevel0(result.doc.elements) + (IF header.present THEN 1 ELSE 0) <= 1

\* every line of the input is a section title, of a level in 1..5 that
\* is not deeper than the level of the title before
TitlesOnly ==
    /\ Len(input) >= 2
    /\ \A i \in 1..Len(input) : input[i] \in TitleLines \ {"title0"}
    /\ \A i \in 1..(Len(input) - 1) :
           \E n \in 1..5 : \E m \in 1..n :
               input[i] = TitleLineOfLevel[n] /\ input[i + 1] = TitleLineOfLevel[m]

\* C9: a section title of level N in 1..5 followed at once by a title of
\* the same or of a shallower level gives a section with no elements,
\* followed by the next section.
C9_EmptySections ==
    Returned /\ TitlesOnly =>
        /\ result.s = "ok"
        /\ Len(result.doc.elements) = Len(input)
        /\ \A i \in 1..Len(input) :
               /\ result.doc.elements[i].type = "Section"
               /\ TitleLineOfLevel[result.doc.elements[i].level] = input[i]
               /\ result.doc.elements[i].elements = <<>>


IsLeveledList(e) == e.type \in {"OrderedList", "UnorderedList"}

RECURSIVE Lists(_)
\* the list and the lists found at any depth in the elements of its items
Lists(list) ==
    {list} \cup UNION {UNION {IF elements[k].type \in {"OrderedList", "UnorderedList",
                                                       "LabeledList"}
                              THEN Lists(elements[k]) ELSE {}
                              : k \in 1..Len(elements)}
                       : elements \in {list.items[i].elements : i \in 1..Len(list.items)}}

\* all items of the list have the same level
SameLevel(list) ==
    \A i, j \in 1..Len(list.items) : list.items[i].level = list.items[j].level

\* every ordered or unordered list in the elements of an item of the
\* list, of the kinds given, has items of a level strictly greater than
\* the level of the item
DeeperChildren(list, kinds) ==
    \A i \in 1..Len(list.items) :
        \A k \in 1..Len(list.items[i].elements) :
            LET child == list.items[i].elements[k]
            IN  child.type \in kinds =>
                    \A m \in 1..Len(child.items) :
                        child.items[m].level > list.items[i].level

ItemsOf(list) == UNION {{l.items[i] : i \in 1..Len(l.items)} : l \in Lists(list)}

IsAnyList(e) == e.type \in {"OrderedList", "UnorderedList", "LabeledList"}

\* the elements are the elements `original`, followed by child lists only
OnlyChildListsAppended(elements, original) ==
    /\ Len(elements) >= Len(original)
    /\ SubSeq(elements, 1, Len(original)) = original
    /\ \A k \in (Len(original) + 1)..Len(elements) : IsAnyList(elements[k])

AttributeLinesAboveText ==
    /\ Len(input) >= 1
    /\ input[Len(input)] = "text"
    /\ \A j \in 1..(Len(input) - 1) : input[j] \in WellFormedAttributeLines

\* the key and the value each well-formed attribute line gives
GivenBy ==
    [attrKV |-> [key |-> "k", value |-> "v"],
     attrKW |-> [key |-> "k", value |-> "w"],
     attrJX |-> [key |-> "j", value |-> "x"],
     idattr |-> [key |-> "elementID", value |-> "thetitle"],
     idshort |-> [key |-> "elementID", value |-> "id"],
     linkattr |-> [key |-> "link", value |-> "u"],
     linkattrWS |-> [key |-> "link", value |-> "u"]]

\* C12: the attribute lines above a paragraph give one attribute map:
\* its keys are the keys of the lines, and the value of a key is the
\* value of the last line that gives the key (so a line given twice
\* counts once).
C12_AttributesAccumulate ==
    pc = "done" /\ AttributeLinesAboveText =>
        /\ result.s = "ok"
        /\ Len(result.doc.elements) = 1
        /\ result.doc.elements[1].type = "Paragraph"
        /\ DOMAIN result.doc.elements[1].attrs
               = {GivenBy[input[j]].key : j \in 1..(Len(input) - 1)}
        /\ \A j \in 1..(Len(input) - 1) :
               (\A later \in (j + 1)..(Len(input) - 1) :
                    GivenBy[input[later]].key # GivenBy[input[j]].key)
                   => result.doc.elements[1].attrs[GivenBy[input[j]].key]
                          = GivenBy[input[j]].value

\* C12, its case: [k=v] then [k=w] above a paragraph give k=w
C12_Witness ==
    /\ pc = "done" /\ result.s = "ok"
    /\ input = <<"attrKV", "attrKW", "text">>
    /\ result.doc.elements[1].attrs = [k |-> "w"]

\* ------------------------------------------------------------------
\* C13: attribute lines that are not well formed
\* ------------------------------------------------------------------
\* the one attribute each of the well-formed lines of C13 gives
CarriedBy ==
    [linkattr |-> [link |-> "u"],
     linkattrWS |-> [link |-> "u"],
     idattr |-> [elementID |-> "thetitle"],
     idshort |-> [elementID |-> "id"]]

\* the literal text of the malformed lines and of the text lines
LiteralOf ==
    [linkattrSP |-> "[ link=u]",
     idshortSP |-> "[ #id ]",
     linkattrOpen |-> "[link=u",
     idshortOpen |-> "[#id",
     text |-> "a b",
     textBracket |-> "c]"]

\* C13: a malformed attribute line (a space after the opening bracket, or
\* no closing bracket) above a text line gives a Paragraph without
\* attributes whose two lines are the literal text of the two lines; a
\* well-formed line above a text line gives a one-line Paragraph that
\* carries the attribute.
C13_MalformedIsText ==
    pc = "done" /\ Len(input) = 2 /\ input[2] \in TextLines =>
        /\ input[1] \in MalformedAttributeLines =>
               /\ result.s = "ok"
               /\ Len(result.doc.elements) = 1
               /\ result.doc.elements[1].type = "Paragraph"
               /\ result.doc.elements[1].attrs = EmptyMap
               /\ result.doc.elements[1].lines
                      = <<LiteralOf[input[1]], LiteralOf[input[2]]>>
        /\ input[1] \in DOMAIN CarriedBy =>
               /\ result.s = "ok"
               /\ Len(result.doc.elements) = 1
               /\ result.doc.elements[1].type = "Paragraph"
               /\ result.doc.elements[1].attrs = CarriedBy[input[1]]
               /\ result.doc.elements[1].lines = <<LiteralOf[input[2]]>>

\* ------------------------------------------------------------------
\* C14: the verse attribute above a delimited block
\* ------------------------------------------------------------------
\* the author and the title each verse attribute line names
NamedBy ==
    [verseattr |-> [author |-> "j d", title |-> "v t"],
     verseattrAuthor |-> [author |-> "j d", title |-> ""],
     verseattrPlain |-> [author |-> "", title |-> ""]]

\* the input is one verse attribute line above a closed delimited block
VerseAttributeAboveBlock ==
    /\ Len(input) = 4
    /\ input[1] \in VerseAttributeLines
    /\ SubSeq(input, 2, 4) \in SampleBodies

\* C14: a verse attribute line above a delimited block of any kind gives
\* a DelimitedBlock of kind verse whose verseAuthor and verseTitle are
\* the trimmed author and title of the line, empty when left out.
C14_VerseAboveAnyBlock ==
    pc = "done" /\ VerseAttributeAboveBlock =>
        /\ result.s = "ok"
        /\ Len(result.doc.elements) = 1
        /\ result.doc.elements[1].type = "DelimitedBlock"
        /\ result.doc.elements[1].attrs
               = [kind |-> "verse",
                  verseAuthor |-> NamedBy[input[1]].author,
                  verseTitle |-> NamedBy[input[1]].title]

\* ------------------------------------------------------------------
\* C15: the admonition attribute above a listing or example block
\* ------------------------------------------------------------------
\* the admonition kind each admonition attribute line names
AdmonitionOf ==
    [tipattr |-> "tip", noteattr |-> "note", importantattr |-> "important",
     warningattr |-> "warning", cautionattr |-> "caution"]

\* the input is one admonition attribute line above a closed listing or
\* example block
AdmonitionAboveBlock ==
    /\ Len(input) = 4
    /\ input[1] \in AdmonitionAttributeLines
    /\ input[2] \in {"listing", "example"}
    /\ SubSeq(input, 2, 4) \in SampleBodies

\* C15: an admonition attribute line above a listing or example block
\* gives a DelimitedBlock of the kind of its delimiter, with
\* admonitionKind the kind the line names, and with the elements the
\* block has when it is parsed from its delimiter line on.
C15_AdmonitionAboveBlock ==
    pc = "done" /\ AdmonitionAboveBlock =>
        /\ result.s = "ok"
        /\ Len(result.doc.elements) = 1
        /\ result.doc.elements[1].type = "DelimitedBlock"
        /\ result.doc.elements[1].attrs
               = [kind |-> input[2], admonitionKind |-> AdmonitionOf[input[1]]]
        /\ Apply("DocumentBlock", 2).s = "ok"
        /\ result.doc.elements[1].elements = Apply("DocumentBlock", 2).v.elements
        /\ result.doc.elements[1].elements # <<>>

\* C15, its case: [NOTE] above a listing block around one line
C15_Witness ==
    /\ pc = "done" /\ result.s = "ok"
    /\ input = <<"noteattr", "listing", "text", "listing">>
    /\ result.doc.elements[1].attrs = [kind |-> "listing", admonitionKind |-> "note"]
    /\ Len(result.doc.elements[1].elements) = 1

\* ------------------------------------------------------------------
\* C16, C17: the backslashes of escaped quoted text
\* ------------------------------------------------------------------
\* the number of backslashes the sequence starts with
LeadingBackslashes(cs) == Backslashes(cs, 1) - 1

\* the punctuation the text opens with, after its backslashes
OpensWith(cs) ==
    LET b == LeadingBackslashes(cs)
    IN  IF At(cs, b + 2) = At(cs, b + 1) THEN <<cs[b + 1], cs[b + 1]>> ELSE <<cs[b + 1]>>

\* the text ends with the character twice
ClosesDouble(cs) == cs[Len(cs) - 1] = cs[Len(cs)]

Monus(a, b) == IF a > b THEN a - b ELSE 0

\* an escaped quoted text was parsed
EscapedParsed == pc = "done" /\ LeadingBackslashes(input) >= 1

\* the sequence starts with n backslashes and then the punctuation
StartsWith(cs, n, punctuation) ==
    /\ Len(cs) >= n + Len(punctuation)
    /\ SubSeq(cs, 1, n) = BackslashRun(n)
    /\ SubSeq(cs, n + 1, n + Len(punctuation)) = punctuation

\* C16 as stated: the literal output starts with max(0, count - len(p))
\* backslashes followed by p, p being the punctuation the source text
\* opens with.
C16_BackslashesByOpening ==
    EscapedParsed =>
        /\ result.s = "ok"
        /\ StartsWith(result.v,
                      Monus(LeadingBackslashes(input), Len(OpensWith(input))),
                      OpensWith(input))

\* the punctuation the matching alternative hands to NewEscapedQuotedText:
\* the double one for a text with two backslashes or more that opens and
\* closes with the double punctuation, the single one otherwise
HandedPunctuation(cs) ==
    IF LeadingBackslashes(cs) >= 2 /\ Len(OpensWith(cs)) = 2 /\ ClosesDouble(cs)
    THEN OpensWith(cs) ELSE <<OpensWith(cs)[1]>>

\* C16 amended: the literal output is max(0, count - len(p)) backslashes,
\* then the punctuation the source text opens with, the content and p,
\* p being the punctuation of the matching alternative.
C16_BackslashesByAlternative ==
    EscapedParsed =>
        /\ result.s = "ok"
        /\ LET count == LeadingBackslashes(input)
               p == HandedPunctuation(input)
               kept == Monus(count, Len(p))
               open == OpensWith(input)
           IN  /\ StartsWith(result.v, kept, open)
               /\ SubSeq(result.v, kept + 1, Len(result.v))
                      = SubSeq(input, count + 1, result.rest - 1)
               /\ SubSeq(input, result.rest - Len(p), result.rest - 1) = p

\* C16, its case: three backslashes before an unbalanced double
\* punctuation keep two of them
C16_Witness ==
    /\ pc = "done" /\ result.s = "ok"
    /\ Str(input) = "\\\\\\**x*"
    /\ Str(result.v) = "\\\\**x*"

\* C17 as stated: \*x* gives *x*, and \\**x** gives \**x**.
C17_OneBackslashKept ==
    pc = "done" =>
        /\ Str(input) = "\\*x*" => result.s = "ok" /\ Str(result.v) = "*x*"
        /\ Str(input) = "\\\\**x**" => result.s = "ok" /\ Str(result.v) = "\\**x**"

\* C17 amended: \*x* gives *x*, \\**x** gives **x** (both backslashes
\* are removed), and \\\**x** gives \**x**.
C17_BothBackslashesRemoved ==
    pc = "done" =>
        /\ Str(input) = "\\*x*" => result.s = "ok" /\ Str(result.v) = "*x*"
        /\ Str(input) = "\\\\**x**" => result.s = "ok" /\ Str(result.v) = "**x**"
        /\ Str(input) = "\\\\\\**x**" => result.s = "ok" /\ Str(result.v) = "\\**x**"

\* C17, its case: \\**x** was parsed
C17_Witness ==
    /\ pc = "done" /\ result.s = "ok"
    /\ Str(input) = "\\\\**x**"
    /\ Str(result.v) = "**x**"

\* ------------------------------------------------------------------
\* C18: runs of blank lines
\* ------------------------------------------------------------------
\* the number of blank lines of the input
BlankLinesOf(lines) == Cardinality({k \in DOMAIN lines : lines[k] = "blank"})

\* the run of blank lines of the input lies inside a block
RunInsideBlock == input[1] \in ContentDelimiters /\ input[3] = "blank"

\* the elements the run of blank lines lies in: the content of the
\* block, or the elements of the document
ElementsAroundRun ==
    IF RunInsideBlock THEN result.doc.elements[1].elements ELSE result.doc.elements

\* the elements are a block, n BlankLine elements and a block
SeparatedBy(elements, n) ==
    /\ Len(elements) = n + 2
    /\ elements[1].type # "BlankLine"
    /\ elements[n + 2].type # "BlankLine"
    /\ \A k \in 2..(n + 1) : elements[k] = NewBlankLine

RECURSIVE ParagraphsOf(_)
\* the paragraphs among the elements and in their sections
ParagraphsOf(elements) ==
    UNION {IF elements[k].type = "Paragraph" THEN {elements[k]}
           ELSE IF elements[k].type = "Section" THEN ParagraphsOf(elements[k].elements)
           ELSE {} : k \in DOMAIN elements}

\* the texts of the section title lines and of the delimiter lines
TitleTexts == {Str(Texts[c]) : c \in TitleLines}

DelimiterTexts == {Str(Texts[c]) : c \in DelimiterLines \cup DelimiterTextLines}

EndingLines == {"blank", "title3", "fenced", "listingX"}

\* the number of lines from the first one on that are no ending lines
RunOf(lines) ==
    IF \E k \in DOMAIN lines : lines[k] \in EndingLines
    THEN (CHOOSE k \in DOMAIN lines :
              /\ lines[k] \in EndingLines
              /\ \A j \in 1..(k - 1) : lines[j] \notin EndingLines) - 1
    ELSE Len(lines)

StemOf(path) ==
    LET name == FileName(path)
    IN  IF \E k \in DOMAIN name : name[k] = "."
        THEN SubSeq(name, 1, LastIndexOf(name, {"."}) - 1)
        ELSE name

\* C20: without an alt attribute, the alt of the image macro is the file
\* name of the path with its extension removed and nothing else
\* removed; a file name without extension is taken whole.
C20_AltIsStem ==
    pc = "done" /\ input.attributes.alt = <<>> =>
        result.macro.attributes.alt = StemOf(input.path)

\* ------------------------------------------------------------------
\* C21: the levels NewOrderedList gives
\* ------------------------------------------------------------------
\* the reference rule on one item: its level and the recorded levels
ReferenceLevel(item, previousLevel, previousStyle, recorded) ==
    IF item.level > previousLevel THEN previousLevel + 1
    ELSE IF item.style # previousStyle
    THEN (IF item.style \in DOMAIN recorded THEN recorded[item.style]
          ELSE previousLevel + 1)
    ELSE previousLevel

ReferenceRecorded(item, previousLevel, previousStyle, recorded) ==
    IF item.level > previousLevel
           \/ (item.style # previousStyle /\ item.style \notin DOMAIN recorded)
    THEN (item.style :> (previousLevel + 1)) @@ recorded
    ELSE recorded

RECURSIVE ReferenceLevels(_, _, _, _)
\* the levels of the reference rule for the items, in one pass from the
\* left
ReferenceLevels(items, previousLevel, previousStyle, recorded) ==
    IF items = <<>> THEN <<>>
    ELSE <<ReferenceLevel(Head(items), previousLevel, previousStyle, recorded)>>
         \o ReferenceLevels(Tail(items),
                ReferenceLevel(Head(items), previousLevel, previousStyle, recorded),
                Head(items).style,
                ReferenceRecorded(Head(items), previousLevel, previousStyle, recorded))

\* the ordered prefixes of the sequence
OrderedPrefixesOf(prefixes) == [i \in 1..Len(prefixes) |-> OrderedPrefixes[prefixes[i]]]

\* C21: the level NewOrderedList gives to every item it has gone through
\* is the level of the reference rule, which starts with previousLevel 0,
\* the unknown style and no recorded level.
C21_LevelsOfReferenceRule ==
    result.o.s = "ok" =>
        \A i \in 1..(pos - 1) :
            result.o.heap[i].level
                = ReferenceLevels(OrderedPrefixesOf(listItems), 0,
                                  UnknownNumberingStyle, EmptyMap)[i]

\* C21, its case: `.`, `..`, `.`, `A.` get the levels 1, 2, 1 (recorded
\* for the style) and 2 (a style not seen before)
C21_Witness ==
    /\ listItems = <<1, 2, 1, 4>>
    /\ pos = 5
    /\ result.o.s = "ok"
    /\ [i \in 1..4 |-> result.o.heap[i].level] = <<1, 2, 1, 2>>

\* ------------------------------------------------------------------
\* C22: the parent of a nested item
\* ------------------------------------------------------------------
\* the place in the sequence of the item with this content
PlaceOf(item) == CHOOSE i \in DOMAIN ItemLabels : ItemLabels[i] = item.elements[1].lines[1]

\* the lists among the elements of an item
ChildLists(item) ==
    {item.elements[k] : k \in {j \in DOMAIN item.elements : IsAnyList(item.elements[j])}}

\* the pairs (place of a parent item, place of an item of a child list
\* of its elements) in the list and in the lists below it
ParentPairs(list) ==
    UNION {UNION {{<<PlaceOf(l.items[i]), PlaceOf(child.items[c])>> :
                      c \in DOMAIN child.items}
                  : child \in ChildLists(l.items[i])}
           : <<l, i>> \in {<<l2, i2>> \in Lists(list) \X DOMAIN ItemLabels :
                               i2 \in DOMAIN l2.items}}

\* the nearest place before i whose item has the level
NearestBefore(heap, i, level) ==
    CHOOSE j \in 1..(i - 1) :
        /\ heap[j].level = level
        /\ \A m \in (j + 1)..(i - 1) : heap[m].level # level

\* in the tree, every item of a level k > 1 has one parent, the nearest
\* item before it whose level is k - 1
NestedUnderNearest(built) ==
    \A i \in DOMAIN built.heap :
        built.heap[i].level > 1 =>
            /\ \E j \in 1..(i - 1) : built.heap[j].level = built.heap[i].level - 1
            /\ {pair[1] : pair \in {q \in ParentPairs(built.list) : q[2] = i}}
                   = {NearestBefore(built.heap, i, built.heap[i].level - 1)}

\* C22: in the tree NewOrderedList returns, every item of a rewritten
\* level k > 1 lies in a child list of the nearest item before it whose
\* level is k - 1, also when the level drops by two or more.
C22_OrderedNestedUnderNearest ==
    pc = "done" /\ result.olist.s = "ok" => NestedUnderNearest(result.olist)

\* ------------------------------------------------------------------
\* C23: the two assemblies on the same prefixes
\* ------------------------------------------------------------------
\* C23: run on the same sequence of (prefix level, style) items, the
\* styles related one to one, NewOrderedList and NewUnorderedList give
\* every item the same rewritten level and the same parent item.
C23_SameNestingShape ==
    pc = "done" /\ result.olist.s = "ok" /\ result.ulist.s = "ok" =>
        /\ \A i \in DOMAIN listItems :
               result.olist.heap[i].level = result.ulist.heap[i].level
        /\ ParentPairs(result.olist.list) = ParentPairs(result.ulist.list)

\* ------------------------------------------------------------------
\* C24: positions and styles in the ordered lists
\* ------------------------------------------------------------------
\* the position of the first item of a list: the numeric start
\* attribute of that item, 1 without one
BaseOf(item) ==
    IF "start" \in DOMAIN item.attrs /\ item.attrs["start"] \in Int
    THEN item.attrs["start"] ELSE 1

\* the item at offset i of the list has the position base + i
PositionsFromBase(list) ==
    \A idx \in DOMAIN list.items :
        list.items[idx].position = BaseOf(list.items[1]) + (idx - 1)

\* the items of the list have the style of its first item
StyleOfFirst(list) ==
    \A idx \in DOMAIN list.items : list.items[idx].style = list.items[1].style

\* C24: in every ordered list of the tree, top-level or nested, the
\* item at offset i has the position base + i, base being the numeric
\* start attribute of the first item of the list, 1 without one; the
\* items of a nested list have the numbering style of its first item.
C24_PositionsFromBase ==
    pc = "done" /\ result.olist.s = "ok" =>
        \A list \in Lists(result.olist.list) :
            /\ PositionsFromBase(list)
            /\ list # result.olist.list => StyleOfFirst(list)

\* ------------------------------------------------------------------
\* C25: the bullet style of an item that opens a level
\* ------------------------------------------------------------------
BulletCycle ==
    <<"dash", "1asterisk", "2asterisks", "3asterisks", "4asterisks", "5asterisks">>

\* the style after the style in the cycle, Dash after FiveAsterisks
SuccessorInCycle(style) ==
    BulletCycle[((CHOOSE i \in DOMAIN BulletCycle : BulletCycle[i] = style)
                 % Len(BulletCycle)) + 1]

\* the level of the previous item, 0 for the first item
LevelBefore(heap, i) == IF i = 1 THEN 0 ELSE heap[i - 1].level

\* the style the item at place i gets when it opens a level
OpeningStyle(heap, i) ==
    IF i = 1 THEN UnorderedPrefixes[listItems[i]].style
    ELSE SuccessorInCycle(heap[i - 1].style)

LevelsStepByOne(heap, n) ==
    \A i \in 1..n :
        /\ heap[i].level >= 1
        /\ heap[i].level <= LevelBefore(heap, i) + 1

\* the keys of bufferedItemsPerLevel are 0 .. (level of the last item - 1)
ContiguousKeys(st, n) ==
    DOMAIN st.buf = 0..(LevelBefore(st.heap, n + 1) - 1)

\* the places of the items of the tree
PlacesIn(list) ==
    UNION {{PlaceOf(l.items[i]) : i \in DOMAIN l.items} : l \in Lists(list)}

\* the loop variables st after n items, and the returned tree
LevelsAndBuffers(st, built, n) ==
    /\ st.s = "ok" =>
           /\ LevelsStepByOne(st.heap, n)
           /\ ContiguousKeys(st, n)
    /\ built.s = "ok" => PlacesIn(built.list) = 1..n

\* C29: in NewOrderedList and NewUnorderedList the first item has level
\* 1 and every later item a level between 1 and the level of the
\* previous item + 1, the keys of bufferedItemsPerLevel are the range
\* 0 .. (level of the last item - 1), and every item is part of the
\* returned tree.
C29_LevelsAndBuffers ==
    /\ LevelsAndBuffers(result.o, result.olist, pos - 1)
    /\ LevelsAndBuffers(result.u, result.ulist, pos - 1)

\* ------------------------------------------------------------------
\* C27: the items of the tree NewList returns
\* ------------------------------------------------------------------
RECURSIVE SumOf(_)
SumOf(numbers) ==
    IF numbers = <<>> THEN 0 ELSE Head(numbers) + SumOf(Tail(numbers))

RECURSIVE CountOfKind(_, _)
\* the number of items of the kind in the list and in the lists
\* reachable through the elements of its items
CountOfKind(list, kind) ==
    SumOf([i \in DOMAIN list.items |->
              (IF list.items[i].kind = kind THEN 1 ELSE 0)
              + SumOf([k \in DOMAIN list.items[i].elements |->
                          IF IsAnyList(list.items[i].elements[k])
                          THEN CountOfKind(list.items[i].elements[k], kind)
                          ELSE 0])])

\* the number of items of the kind in the flat sequence
InputOfKind(items, kind) ==
    Cardinality({i \in DOMAIN items : items[i].kind = kind})

\* C27: NewList loses and duplicates no item: for every kind of item,
\* the returned tree holds, in the root list or in a sublist reachable
\* through item elements, as many items of the kind as the input.
C27_NoItemLostOrDuplicated ==
    pc = "done" /\ result.s = "ok" =>
        \A kind \in {"O", "U", "L"} :
            CountOfKind(result.list, kind) = InputOfKind(listItems, kind)

\* ------------------------------------------------------------------
\* C28: the run-time failures of the list assembly
\* ------------------------------------------------------------------
\* C28: for every non-empty sequence of list items, every parent layer
\* read by NewList, NewOrderedList and NewUnorderedList is non-empty:
\* no index is out of range and NewList returns a list.
C28_AssemblyReturnsList ==
    pc = "done" => result.s = "ok"

\* ------------------------------------------------------------------
\* C26, C30: NewDocument and the `toc` attribute
\* ------------------------------------------------------------------
\* the elements insertPreamble returns hold no Preamble
NoPreamble(bs) ==
    \A i \in DOMAIN insertPreamble(bs) : insertPreamble(bs)[i].type # "Preamble"

\* C26: when `toc` is `preamble` and the elements hold no Preamble,
\* NewDocument inserts no TableOfContentsMacro: the elements of the
\* Document are the blocks, unchanged.
C26_NoPreambleNoTableOfContents ==
    pc = "done" /\ header.toc = "preamble" /\ NoPreamble(blocks) =>
        /\ result.s = "ok"
        /\ result.doc.elements = blocks

\* C30: NewDocument returns a Document for every `toc` value of the
\* header and every list of blocks, the empty list included.
C30_DocumentReturned ==
    pc = "done" => result.s = "ok"

=============================================================================
